---- MODULE Spec2Model ----
(***************************************************************************)
(* Themis: run orchestration and result caching.                           *)
(*                                                                         *)
(* The model follows src/themis_lib/analyzer.py (CaseAnalyzer),            *)
(* src/themis_lib/commands.py (analyze / defend / full-process) and        *)
(* src/themis_lib/defense.py (DefenseGenerator).                           *)
(*                                                                         *)
(* Strings are sequences of tokens (a token is a one-character string, or  *)
(* a fixed literal of the code such as "document_analysis_"); paths are    *)
(* sequences of components, each component a string.                       *)
(***************************************************************************)
EXTENDS Integers, Sequences, FiniteSets, TLC

\* ------------------------------------------------------------------ bounds
\* Range of the builtin hash(): 2^64 in CPython, a small range here.  The
\* domain (all question lists) is larger than the range in both.
HashMod == 5
\* Number of distinct per-process hash seeds (PYTHONHASHSEED is random).
NumSeeds == 2
\* Calendar days the clock can reach.
MaxDate == 2
\* Program operations (commands and API calls) in one behaviour.
MaxOps == 2
\* Changes the environment makes to documents, questions and files.
MaxEdits == 1

\* ------------------------------------------------------------- the values
\* An optional value is a sequence: <<>> is Python's None, <<v>> is v.
None == <<>>
Some(v) == <<v>>

\* File contents: a JSON document, a text, a log, something json.load rejects.
NoFile == [kind |-> "absent"]
Malformed == [kind |-> "malformed"]
LogFile == [kind |-> "log"]
\* A file opened for writing and not yet written in full: it holds a strict
\* prefix of the JSON text, possibly nothing, which json.load rejects.
Truncated == [kind |-> "empty"]

\* Question texts and the ordered question lists the question source yields.
Q1 == <<"p">>
Q2 == <<"q">>
QLists == {<<Q1>>, <<Q2, Q1>>}

\* config.FALLBACK_QUESTIONS (five fixed questions in the code, two here).
FALLBACK_QUESTIONS == <<Q1, Q2>>

\* What query_ollama can return: "" on any failure, else the response text.
Answers == {<<>>, <<"r">>}

\* What a requests.post call of query_ollama can come to: an exception, or
\* a response with a status code and a JSON body that may hold 'response'.
Outcomes ==
    { [exc |-> TRUE,  status |-> 0,   response |-> None],
      [exc |-> FALSE, status |-> 500, response |-> Some(<<"r">>)],
      [exc |-> FALSE, status |-> 200, response |-> None],
      [exc |-> FALSE, status |-> 200, response |-> Some(<<"r">>)] }

\* Model identifiers, some containing characters illegal in file names.
Models == {<<"m">>, <<"m", ":", "7">>, <<"o", "/", "m">>}

\* The case directory and the PDF names it may hold.
CaseDir == << <<"case">> >>
DocA == <<"a", ".pdf">>
DocB == <<"b", ".pdf">>
DocC == <<"B", ".pdf">>
DocNames == {DocA, DocB, DocC}
\* The documents whose content changes between runs.
CacheDocs == {DocA, DocB}
\* Document contents: 0 is a PDF no text can be extracted from.
Contents == {0, 1, 2}

\* --------------------------------------------------------------- strings
RECURSIVE Flatten(_)
\* "".join(parts)
Flatten(parts) ==
    IF parts = <<>> THEN <<>> ELSE Head(parts) \o Flatten(Tail(parts))

RECURSIVE JoinWith(_, _)
\* sep.join(parts)
JoinWith(parts, sep) ==
    IF parts = <<>> THEN <<>>
    ELSE IF Len(parts) = 1 THEN Head(parts)
    ELSE Head(parts) \o sep \o JoinWith(Tail(parts), sep)

Digit(n) ==
    CASE n = 0 -> "0" [] n = 1 -> "1" [] n = 2 -> "2" [] n = 3 -> "3"
      [] n = 4 -> "4" [] n = 5 -> "5" [] n = 6 -> "6" [] n = 7 -> "7"
      [] n = 8 -> "8" [] OTHER -> "9"

RECURSIVE NatToStr(_)
NatToStr(n) ==
    IF n < 10 THEN <<Digit(n)>> ELSE NatToStr(n \div 10) \o <<Digit(n % 10)>>

\* str(int), as an f-string renders a hash value.
IntToStr(n) == IF n < 0 THEN <<"-">> \o NatToStr(0 - n) ELSE NatToStr(n)

\* repr(str) for texts without quotes or escapes.
ReprStr(s) == <<"'">> \o s \o <<"'">>

\* str(list of str): "['p', 'q']".
StrList(qs) ==
    <<"[">> \o JoinWith([i \in 1..Len(qs) |-> ReprStr(qs[i])], <<",", " ">>)
            \o <<"]">>

CharCode(c) ==
    CASE c = "[" -> 1 [] c = "]" -> 2 [] c = "'" -> 3 [] c = "," -> 4
      [] c = " " -> 5 [] c = "p" -> 6 [] c = "q" -> 7 [] OTHER -> 8

RECURSIVE HashFold(_, _)
HashFold(h, s) ==
    IF s = <<>> THEN h
    ELSE HashFold((h * 3 + CharCode(Head(s))) % HashMod, Tail(s))

\* The builtin hash(str): a keyed hash of the characters, the key drawn per
\* process (hash randomization), the result a signed integer of bounded
\* width, and -1 reserved (CPython returns -2 in its place).
PyHash(seed, s) ==
    LET u == HashFold(seed % HashMod, s)
        v == IF 2 * u >= HashMod THEN u - HashMod ELSE u
    IN IF v = -1 THEN -2 ELSE v

\* -------------------------------------------------------------- pathlib
RECURSIVE SplitSlash(_, _)
\* The components of a string: split at "/", empty components dropped.
SplitSlash(s, cur) ==
    IF s = <<>> THEN (IF cur = <<>> THEN <<>> ELSE <<cur>>)
    ELSE IF Head(s) = "/"
         THEN (IF cur = <<>> THEN <<>> ELSE <<cur>>) \o SplitSlash(Tail(s), <<>>)
         ELSE SplitSlash(Tail(s), Append(cur, Head(s)))

\* Path(p) / s
PathJoin(p, s) == p \o SplitSlash(s, <<>>)

\* str(path)
PathStr(p) == JoinWith(p, <<"/">>)

\* path.parent
Parent(p) == SubSeq(p, 1, Len(p) - 1)

\* Every ancestor of p, and p: what mkdir(parents=True) creates.
WithParents(p) == {SubSeq(p, 1, n) : n \in 1..Len(p)}

\* datetime.now().strftime('%Y%m%d') on day d of the modelled calendar.
DateStr(d) == NatToStr(20250100 + d)

\* ------------------------------------------------------- ordered mappings
\* A Python dict with insertion order: a sequence of <<key, value>> pairs.
DictHas(d, k) == \E i \in 1..Len(d) : d[i][1] = k

DictGet(d, k) == d[CHOOSE i \in 1..Len(d) : d[i][1] = k][2]

\* d[k] = v : overwrite in place, or append a new key.
\* A list of pairs that takes a second pair for a key it holds.
DictSet_AlwaysAppend(d, k, v) == Append(d, <<k, v>>)

DictSet(d, k, v) ==
    IF DictHas(d, k)
    THEN [i \in 1..Len(d) |-> IF d[i][1] = k THEN <<k, v>> ELSE d[i]]
    ELSE Append(d, <<k, v>>)

DictKeys(d) == [i \in 1..Len(d) |-> d[i][1]]

\* json.dump(value, f) followed by closing the file.
JsonDump(v) == [kind |-> "json", value |-> v]

\* Whether json.load(f) parses the file.
JsonParses(file) == file.kind = "json"

\* ------------------------------------------------------------ the state
VARIABLES
    today,      \* the calendar day datetime.now() reports
    seed,       \* the hash seed of the running process
    pdfs,       \* the PDFs of the case directory: name -> content, -1 absent
    qfile,      \* the user's questions file: None, or the list it parses to
    defq,       \* the packaged questions.md: None, or the list it parses to
    model,      \* the model identifier of the invocations
    fs,         \* the files on disk: path -> content
    dirs,       \* the directories on disk
    analyzer,   \* the CaseAnalyzer of the process: None or the object
    gen,        \* the DefenseGenerator of the process: None or the object
    pc,         \* where the process is: "idle", "docs", "saving", "fp_defend"
    job,        \* the analyze_all_documents call in progress
    ret,        \* what the last finished command or call returned
    last,       \* history: the last analyze_document call
    tally,      \* history: computations per fingerprint by this analyzer
    fpLog,      \* history: the fingerprints computed, with their inputs
    runs,       \* history: the last two analyze_all_documents runs
    ops,        \* program operations started so far
    edits,      \* environment changes so far
    sent,       \* history: the prompts of the generate_all_materials calls
    peer,       \* a second process on the same case directory, suspended
    exchanges   \* history: the HTTP exchanges of query_ollama called directly

vars == <<today, seed, pdfs, qfile, defq, model, fs, dirs, analyzer, gen, pc,
          job, ret, last, tally, fpLog, runs, ops, edits, sent, peer, exchanges>>

Seeds == 0..(NumSeeds - 1)
Dates == 1..MaxDate

\* ---------------------------------------------------------- file system
FileAt(p) == IF p \in DOMAIN fs THEN fs[p] ELSE NoFile

\* Path.exists() on the disk (files, dirset)
Exists(files, dirset, p) == p \in DOMAIN files \/ p \in dirset

\* p / name for a single component name.
Child(p, name) == Append(p, name)

\* ------------------------------------------------------------- utilities
\* utils.sanitize_model_name: path-illegal characters replaced.
sanitize_model_name(m) ==
    [i \in 1..Len(m) |-> IF m[i] \in {"/", ":", "\\", " "} THEN "_" ELSE m[i]]

\* utils.load_questions_from_file on a file that parses to `file`:
\* None when the file is absent, else the questions (possibly none).
load_questions_from_file(file) == file

\* Python truth of an optional list: None and [] are both false.
Truthy(optList) == optList # None /\ optList[1] # <<>>

\* ------------------------------------------------- the HTTP exchange
\* The JSON values a 'response' field can hold.
StrValue(text) == [type |-> "str", text |-> text]
NullValue == [type |-> "null", text |-> <<>>]
ListValue == [type |-> "list", text |-> <<>>]

\* The bodies of an HTTP reply: text that is not JSON, a JSON object
\* without or with a 'response' field, a JSON array with the element
\* "response", a JSON number.
NotJson == [shape |-> "text", response |-> None]
JsonObject(field) == [shape |-> "object", response |-> field]
JsonArray == [shape |-> "array", response |-> None]
JsonNumber == [shape |-> "number", response |-> None]
Bodies ==
    {NotJson, JsonArray, JsonNumber, JsonObject(None)}
    \cup {JsonObject(Some(v)) :
             v \in {StrValue(<<"r">>), StrValue(<<>>), NullValue, ListValue}}

\* What requests.post comes to: an exception, or a reply with a status and
\* a body.
Replies ==
    {[exc |-> "ConnectionError", status |-> 0, body |-> NotJson]}
    \cup [exc : {""}, status : {200, 201, 500}, body : Bodies]

\* The try block of query_ollama (utils.py 112-137) on a reply: what it
\* returns, or the exception an expression of it raises.  `response.json()`
\* raises on text that is not JSON, `in` on a number, the subscript
\* ['response'] on an array, len(result) on null, result[:100].replace on
\* a list.
QueryTry(reply) ==
    LET b == reply.body
        Raise(e) == [exc |-> e, result |-> <<>>, path |-> "raise"]
    IN IF reply.exc # "" THEN Raise(reply.exc)
       ELSE IF reply.status # 200
       THEN [exc |-> "", result |-> <<>>, path |-> "else"]
       ELSE IF b.shape = "text" THEN Raise("ValueError")
       ELSE IF b.shape = "number" THEN Raise("TypeError")
       ELSE IF b.shape = "array" THEN Raise("TypeError")
       ELSE IF b.response = None
       THEN [exc |-> "", result |-> <<>>, path |-> "else"]
       ELSE IF b.response[1].type = "null" THEN Raise("TypeError")
       ELSE IF b.response[1].type = "list" THEN Raise("AttributeError")
       ELSE [exc |-> "", result |-> b.response[1].text, path |-> "response"]

\* A handler that catches the exceptions of the requests library only.
QueryCatches_RequestsOnly(exc) == exc = "ConnectionError"

\* `except Exception` (utils.py 138): every exception the try block can
\* raise but KeyboardInterrupt.
QueryCatches(exc) == exc # "KeyboardInterrupt"

\* utils.query_ollama on a reply: the string returned, the exception that
\* leaves it ("" for none), and whether the string is the reply's response.
query_ollama_reply(reply) ==
    LET t == QueryTry(reply)
    IN IF t.exc = ""
       THEN [result |-> t.result, raised |-> "", response |-> t.path = "response"]
       ELSE IF QueryCatches(t.exc)
       THEN [result |-> <<>>, raised |-> "", response |-> FALSE]
       ELSE [result |-> <<>>, raised |-> t.exc, response |-> FALSE]

\* utils.query_ollama on a call that comes to outcome o: the 'response'
\* text of a 200 reply that has one, "" otherwise.
query_ollama(o) ==
    IF ~o.exc /\ o.status = 200 /\ o.response # None THEN o.response[1]
    ELSE <<>>

\* utils.extract_text_from_pdf: "" when the file is missing or unreadable.
extract_text_from_pdf(name) ==
    IF pdfs[name] <= 0 THEN <<>> ELSE <<"text", Digit(pdfs[name])>>

\* f"{date}_{sanitized_model}"
RunDirName(d, sanitized) == DateStr(d) \o <<"_">> \o sanitized

\* f"document_analysis_{sanitized_model}.json"
AnalysisName(sanitized) == <<"document_analysis_">> \o sanitized \o <<".json">>

\* f"document_analysis_{sanitized_model}.md"
SummaryName(sanitized) == <<"document_analysis_">> \o sanitized \o <<".md">>

\* ------------------------------------------------------------ CaseAnalyzer
\* A load that takes a cache file it cannot parse for an empty cache.
load_cache_Lenient(files, cache_file) ==
    IF cache_file \in DOMAIN files /\ JsonParses(files[cache_file])
    THEN Some(files[cache_file].value)
    ELSE Some(<<>>)

\* CaseAnalyzer.load_cache: the cache after loading, None if json.load raises.
load_cache(files, cache_file) ==
    IF cache_file \in DOMAIN files
    THEN IF JsonParses(files[cache_file]) THEN Some(files[cache_file].value)
         ELSE None
    ELSE Some(<<>>)

\* CaseAnalyzer.save_cache: the whole in-memory cache rewritten to the file.
\* A save that keeps the entries the file on disk holds besides its own.
save_cache_Merge(files, self) ==
    (self.cache_file :>
        JsonDump(IF self.cache_file \in DOMAIN files
                    /\ files[self.cache_file].kind = "json"
                 THEN self.analysis_cache @@ files[self.cache_file].value
                 ELSE self.analysis_cache))
    @@ files

save_cache(files, self) ==
    (self.cache_file :> JsonDump(self.analysis_cache)) @@ files

\* A constructor that writes the cache file as soon as it has loaded it.
CaseAnalyzerInit_SavesCache(mdl, run_dir, files, dirset) ==
    LET sanitized == sanitize_model_name(mdl)
        output_dir == IF run_dir # None THEN run_dir[1]
                      ELSE PathJoin(CaseDir, RunDirName(today, sanitized))
        dirs1 == IF run_dir # None THEN dirset
                 ELSE dirset \cup WithParents(output_dir)
        cache_file == Child(output_dir, <<"analysis_cache.json">>)
        log_path == Child(output_dir, <<"case_analysis.log">>)
        fs1 == IF log_path \in DOMAIN files THEN files
               ELSE (log_path :> LogFile) @@ files
        loaded == load_cache(fs1, cache_file)
        self == [model |-> mdl, sanitized_model |-> sanitized,
                 output_dir |-> output_dir,
                 analysis_cache |-> IF loaded = None THEN <<>> ELSE loaded[1],
                 cache_file |-> cache_file, log_path |-> log_path,
                 default_questions |-> None]
    IN [raised |-> "", self |-> Some(self), fs |-> save_cache(fs1, self),
        dirs |-> dirs1]

\* CaseAnalyzer.__init__(case_dir, model, run_dir=run_dir).
CaseAnalyzerInit(mdl, run_dir, files, dirset) ==
    LET sanitized == sanitize_model_name(mdl)
        output_dir == IF run_dir # None THEN run_dir[1]
                      ELSE PathJoin(CaseDir, RunDirName(today, sanitized))
        dirs1 == IF run_dir # None THEN dirset
                 ELSE dirset \cup WithParents(output_dir)
        cache_file == Child(output_dir, <<"analysis_cache.json">>)
        log_path == Child(output_dir, <<"case_analysis.log">>)
        logOk == output_dir \in dirs1
        fs1 == IF log_path \in DOMAIN files THEN files
               ELSE (log_path :> LogFile) @@ files
        loaded == load_cache(fs1, cache_file)
    IN IF ~logOk
       THEN [raised |-> "FileNotFoundError", self |-> None, fs |-> files,
             dirs |-> dirs1]
       ELSE IF loaded = None
       THEN [raised |-> "JSONDecodeError", self |-> None, fs |-> fs1, dirs |-> dirs1]
       ELSE [raised |-> "",
             self |-> Some([model |-> mdl,
                            sanitized_model |-> sanitized,
                            output_dir |-> output_dir,
                            analysis_cache |-> loaded[1],
                            cache_file |-> cache_file,
                            log_path |-> log_path,
                            default_questions |-> None]),
             fs |-> fs1, dirs |-> dirs1]

\* The question list analyze_document works with (analyzer.py 72-78).
ResolveQuestions_ReloadDefault(self, questions_file) ==
    IF questions_file /\ qfile # None
    THEN LET questions == load_questions_from_file(qfile)
         IN IF Truthy(questions) THEN questions[1] ELSE self.default_questions[1]
    ELSE IF Truthy(load_questions_from_file(defq)) THEN defq[1]
    ELSE self.default_questions[1]

ResolveQuestions(self, questions_file) ==
    IF questions_file /\ qfile # None
    THEN LET questions == load_questions_from_file(qfile)
         IN IF Truthy(questions) THEN questions[1] ELSE self.default_questions[1]
    ELSE self.default_questions[1]

\* A fingerprint that leaves the questions out: the path alone.
FileHash_PathOnly(pdf_path, questions, hseed) ==
    PathStr(pdf_path) \o <<"_">>

\* file_hash = f"{pdf_path}_{hash(str(questions))}"
FileHash(pdf_path, questions, hseed) ==
    PathStr(pdf_path) \o <<"_">> \o IntToStr(PyHash(hseed, StrList(questions)))

RECURSIVE BlankAnalysis(_, _)
\* {q: "" for q in questions}
BlankAnalysis(questions, acc) ==
    IF questions = <<>> THEN acc
    ELSE BlankAnalysis(Tail(questions), DictSet(acc, Head(questions), <<>>))

RECURSIVE AskAll_StopAtFailure(_, _, _, _)
\* The loop over the questions, given up at the first call that fails.
AskAll_StopAtFailure(questions, answers, i, acc) ==
    IF i > Len(questions) \/ answers[i] = <<>> THEN acc
    ELSE AskAll_StopAtFailure(questions, answers, i + 1,
                              DictSet(acc, questions[i], answers[i]))

RECURSIVE AskAll(_, _, _, _)
\* The loop over the questions: one query_ollama call per question, in
\* order, answers[i] being what the i-th call returns.
AskAll(questions, answers, i, acc) ==
    IF i > Len(questions) THEN acc
    ELSE AskAll(questions, answers, i + 1, DictSet(acc, questions[i], answers[i]))

RECURSIVE AskLog_Twice(_, _, _)
\* A loop that puts every question to the LLM a second time.
AskLog_Twice(questions, i, log) ==
    IF i > Len(questions) THEN log
    ELSE AskLog_Twice(questions, i + 1,
                      Append(Append(log, questions[i]), questions[i]))

RECURSIVE AskLog(_, _, _)
\* The same loop, seen from the LLM service: the questions of the calls it
\* receives, in the order it receives them.
AskLog(questions, i, log) ==
    IF i > Len(questions) THEN log
    ELSE AskLog(questions, i + 1, Append(log, questions[i]))

\* analyze_document with the extraction moved in front of the cache lookup.
AnalyzeDocument_ExtractFirst(self, name, questions_file, answers) ==
    LET questions == ResolveQuestions(self, questions_file)
        file_hash == FileHash(Child(CaseDir, name), questions, seed)
        text == extract_text_from_pdf(name)
        results == [filename |-> name,
                    analysis |-> AskAll(questions, answers, 1, <<>>)]
        self1 == [self EXCEPT !.analysis_cache = (file_hash :> results) @@ @]
        out == [self |-> self, fs |-> fs, result |-> results, key |-> file_hash,
                questions |-> questions, hit |-> FALSE, extracted |-> TRUE,
                llm |-> 0, asked |-> <<>>]
    IN IF file_hash \in DOMAIN self.analysis_cache
       THEN [out EXCEPT !.result = self.analysis_cache[file_hash], !.hit = TRUE]
       ELSE IF text = <<>>
       THEN [out EXCEPT !.result.analysis = BlankAnalysis(questions, <<>>)]
       ELSE [out EXCEPT !.self = self1, !.fs = save_cache(fs, self1),
                        !.llm = Len(questions),
                        !.asked = AskLog(questions, 1, <<>>)]

\* analyze_document without the save_cache call after the store.
AnalyzeDocument_NoSave(self, name, questions_file, answers) ==
    LET questions == ResolveQuestions(self, questions_file)
        file_hash == FileHash(Child(CaseDir, name), questions, seed)
        text == extract_text_from_pdf(name)
        results == [filename |-> name,
                    analysis |-> AskAll(questions, answers, 1, <<>>)]
        self1 == [self EXCEPT !.analysis_cache = (file_hash :> results) @@ @]
        out == [self |-> self, fs |-> fs, result |-> results, key |-> file_hash,
                questions |-> questions, hit |-> FALSE, extracted |-> TRUE,
                llm |-> 0, asked |-> <<>>]
    IN IF file_hash \in DOMAIN self.analysis_cache
       THEN [out EXCEPT !.result = self.analysis_cache[file_hash], !.hit = TRUE,
                        !.extracted = FALSE]
       ELSE IF text = <<>>
       THEN [out EXCEPT !.result.analysis = BlankAnalysis(questions, <<>>)]
       ELSE [out EXCEPT !.self = self1, !.llm = Len(questions),
                        !.asked = AskLog(questions, 1, <<>>)]

\* analyze_document without the cache lookup: every call computes.
AnalyzeDocument_NoLookup(self, name, questions_file, answers) ==
    LET questions == ResolveQuestions(self, questions_file)
        file_hash == FileHash(Child(CaseDir, name), questions, seed)
        text == extract_text_from_pdf(name)
        results == [filename |-> name,
                    analysis |-> AskAll(questions, answers, 1, <<>>)]
        self1 == [self EXCEPT !.analysis_cache = (file_hash :> results) @@ @]
        out == [self |-> self, fs |-> fs, result |-> results, key |-> file_hash,
                questions |-> questions, hit |-> FALSE, extracted |-> TRUE,
                llm |-> 0, asked |-> <<>>]
    IN IF text = <<>>
       THEN [out EXCEPT !.result.analysis = BlankAnalysis(questions, <<>>)]
       ELSE [out EXCEPT !.self = self1, !.fs = save_cache(fs, self1),
                        !.llm = Len(questions),
                        !.asked = AskLog(questions, 1, <<>>)]

\* analyze_document without the test for empty text: the questions are put
\* to the LLM whatever the extraction gave.
AnalyzeDocument_NoTextCheck(self, name, questions_file, answers) ==
    LET questions == ResolveQuestions(self, questions_file)
        file_hash == FileHash(Child(CaseDir, name), questions, seed)
        results == [filename |-> name,
                    analysis |-> AskAll(questions, answers, 1, <<>>)]
        self1 == [self EXCEPT !.analysis_cache = (file_hash :> results) @@ @]
        out == [self |-> self, fs |-> fs, result |-> results, key |-> file_hash,
                questions |-> questions, hit |-> FALSE, extracted |-> TRUE,
                llm |-> 0, asked |-> <<>>]
    IN IF file_hash \in DOMAIN self.analysis_cache
       THEN [out EXCEPT !.result = self.analysis_cache[file_hash], !.hit = TRUE,
                        !.extracted = FALSE]
       ELSE [out EXCEPT !.self = self1, !.fs = save_cache(fs, self1),
                        !.llm = Len(questions),
                        !.asked = AskLog(questions, 1, <<>>)]

\* CaseAnalyzer.analyze_document(pdf_path, questions_file): the analyzer and
\* the files afterwards, the value returned, and what the call did.
\* An analyze_document that stores an analysis only when every answer of it
\* is non-empty.
AnalyzeDocument_SkipDegraded(self, name, questions_file, answers) ==
    LET questions == ResolveQuestions(self, questions_file)
        pdf_path == Child(CaseDir, name)
        file_hash == FileHash(pdf_path, questions, seed)
        text == extract_text_from_pdf(name)
        results == [filename |-> name,
                    analysis |-> AskAll(questions, answers, 1, <<>>)]
        whole == \A i \in 1..Len(results.analysis) : results.analysis[i][2] # <<>>
        self1 == IF whole
                 THEN [self EXCEPT !.analysis_cache = (file_hash :> results) @@ @]
                 ELSE self
    IN IF file_hash \in DOMAIN self.analysis_cache
       THEN [self |-> self, fs |-> fs, result |-> self.analysis_cache[file_hash],
             key |-> file_hash, questions |-> questions, hit |-> TRUE,
             extracted |-> FALSE, llm |-> 0, asked |-> <<>>]
       ELSE IF text = <<>>
       THEN [self |-> self, fs |-> fs,
             result |-> [filename |-> name,
                         analysis |-> BlankAnalysis(questions, <<>>)],
             key |-> file_hash, questions |-> questions, hit |-> FALSE,
             extracted |-> TRUE, llm |-> 0, asked |-> <<>>]
       ELSE [self |-> self1, fs |-> IF whole THEN save_cache(fs, self1) ELSE fs,
             result |-> results,
             key |-> file_hash, questions |-> questions, hit |-> FALSE,
             extracted |-> TRUE, llm |-> Len(questions),
             asked |-> AskLog(questions, 1, <<>>)]

AnalyzeDocument(self, name, questions_file, answers) ==
    LET questions == ResolveQuestions(self, questions_file)
        pdf_path == Child(CaseDir, name)
        file_hash == FileHash(pdf_path, questions, seed)
        text == extract_text_from_pdf(name)
        results == [filename |-> name,
                    analysis |-> AskAll(questions, answers, 1, <<>>)]
        self1 == [self EXCEPT !.analysis_cache = (file_hash :> results) @@ @]
    IN IF file_hash \in DOMAIN self.analysis_cache
       THEN [self |-> self, fs |-> fs, result |-> self.analysis_cache[file_hash],
             key |-> file_hash, questions |-> questions, hit |-> TRUE,
             extracted |-> FALSE, llm |-> 0, asked |-> <<>>]
       ELSE IF text = <<>>
       THEN [self |-> self, fs |-> fs,
             result |-> [filename |-> name,
                         analysis |-> BlankAnalysis(questions, <<>>)],
             key |-> file_hash, questions |-> questions, hit |-> FALSE,
             extracted |-> TRUE, llm |-> 0, asked |-> <<>>]
       ELSE [self |-> self1, fs |-> save_cache(fs, self1), result |-> results,
             key |-> file_hash, questions |-> questions, hit |-> FALSE,
             extracted |-> TRUE, llm |-> Len(questions),
             asked |-> AskLog(questions, 1, <<>>)]

\* CaseAnalyzer.analyze_all_documents, up to the loop: the default question
\* list it stores (analyzer.py 124-130).
DefaultQuestions(default_questions) ==
    IF Truthy(default_questions) THEN default_questions[1]
    ELSE IF Truthy(load_questions_from_file(defq)) THEN defq[1]
    ELSE FALLBACK_QUESTIONS

\* ord() of the first character of a name; the other characters are the
\* same in all names.
Ord(c) == CASE c = "B" -> 66 [] c = "a" -> 97 [] c = "b" -> 98 [] OTHER -> 46

RECURSIVE StrLess(_, _)
\* a < b for two strings: the first differing character decides.
StrLess(a, b) ==
    IF b = <<>> THEN FALSE
    ELSE IF a = <<>> THEN TRUE
    ELSE IF Ord(Head(a)) # Ord(Head(b)) THEN Ord(Head(a)) < Ord(Head(b))
    ELSE StrLess(Tail(a), Tail(b))

RECURSIVE SortedSeq(_)
\* sorted(S) for a set of distinct names.
SortedSeq(S) ==
    IF S = {} THEN <<>>
    ELSE LET least == CHOOSE x \in S : \A y \in S \ {x} : StrLess(x, y)
         IN <<least>> \o SortedSeq(S \ {least})

\* The names in the order glob lists them when nothing sorts them.
DocOrder_Unsorted == <<DocA, DocB, DocC>>

\* sorted(self.case_dir.glob("*.pdf"))
DocOrder == SortedSeq(DocNames)
\* A listing that leaves out the PDFs no text can be extracted from.
SortedPdfs_ReadableOnly == SelectSeq(DocOrder, LAMBDA d : pdfs[d] > 0)

SortedPdfs == SelectSeq(DocOrder, LAMBDA d : pdfs[d] >= 0)

\* utils.generate_markdown_summary: the summary file of the results.
MarkdownSummary(results) ==
    [kind |-> "text",
     value |-> <<"# Document Analysis Summary">>
               \o Flatten([i \in 1..Len(results) |-> results[i].filename])]

\* ------------------------------------------------------- DefenseGenerator
\* DefenseGenerator.load_analysis: "" and the data, or the exception raised.
load_analysis(files, analysis_file) ==
    IF analysis_file \notin DOMAIN files
    THEN [raised |-> "FileNotFoundError", data |-> <<>>]
    ELSE IF ~JsonParses(files[analysis_file])
    THEN [raised |-> "JSONDecodeError", data |-> <<>>]
    ELSE [raised |-> "", data |-> files[analysis_file].value]

\* DefenseGenerator.__init__(case_dir, model, analysis_file, api_url); the
\* signature has no run_dir parameter, so a call passing run_dir=... raises
\* TypeError before the body runs.
DefenseGeneratorInit(mdl, analysis_file, run_dir_kw, files, dirset) ==
    LET output_dir == PathJoin(CaseDir, DateStr(today) \o <<"_">> \o mdl)
        dirs1 == dirset \cup WithParents(output_dir)
        afile == IF analysis_file # None THEN analysis_file[1]
                 ELSE PathJoin(CaseDir, <<"document_analysis_">> \o mdl \o <<".json">>)
        log_path == Child(output_dir, <<"defense_generation.log">>)
        fs1 == IF log_path \in DOMAIN files THEN files
               ELSE (log_path :> LogFile) @@ files
        got == load_analysis(fs1, afile)
    IN IF run_dir_kw
       THEN [raised |-> "TypeError", self |-> None, fs |-> files, dirs |-> dirset]
       ELSE IF got.raised # ""
       THEN [raised |-> got.raised, self |-> None, fs |-> fs1, dirs |-> dirs1]
       ELSE [raised |-> "",
             self |-> Some([model |-> mdl, output_dir |-> output_dir,
                            analysis_file |-> afile, log_path |-> log_path,
                            analysis_data |-> got.data]),
             fs |-> fs1, dirs |-> dirs1]

\* summary[:6000]
SummaryLimit == 6000
Truncate(s, n) == IF Len(s) <= n THEN s ELSE SubSeq(s, 1, n)

\* The summary generate_defense_strategy compiles from the analysis data
\* (defense.py 74-78): per document its name, then its questions and answers.
Summary(data) ==
    <<"Document Analysis Summary:">>
    \o Flatten([i \in 1..Len(data) |->
           <<"Document: ">> \o data[i].filename \o <<"\n">>
           \o Flatten([k \in 1..Len(data[i].analysis) |->
                  data[i].analysis[k][1] \o <<"\n">>
                  \o data[i].analysis[k][2] \o <<"\n\n">>])])

\* The prompt generate_defense_strategy sends (defense.py 80-94).
StrategyPrompt(self) ==
    <<"generate a comprehensive legal defense strategy">>
    \o Truncate(Summary(self.analysis_data), SummaryLimit)

\* An action-items prompt with the analysis summary embedded.
ActionItemsPrompt_WithSummary(self) ==
    <<"generate a list of specific action items">>
    \o Truncate(Summary(self.analysis_data), SummaryLimit)

\* The prompt generate_action_items sends (defense.py 101-112).
ActionItemsPrompt(self) == <<"generate a list of specific action items">>

\* The prompt generate_timeline sends (defense.py 119-129).
TimelinePrompt(self) == <<"create a chronological timeline of events">>

\* write_to_both(filename, heading + content)
WriteToBoth(files, d1, d2, name, heading, content) ==
    LET text == [kind |-> "text", value |-> <<heading>> \o content]
    IN (Child(d1, name) :> text) @@ (Child(d2, name) :> text) @@ files

\* DefenseGenerator.generate_all_materials: answers are what the three
\* query_ollama calls return (strategy, action items, timeline).
GenerateAllMaterials(self, files, dirset, answers) ==
    LET defense_output_dir == Child(self.output_dir, <<"defense_materials">>)
        dirs1 == dirset \cup {defense_output_dir}
        case_defense_dir ==
            PathJoin(CaseDir, <<"Defense-">> \o DateStr(today) \o <<"-">> \o self.model)
        mkdirOk == Parent(case_defense_dir) \in dirs1
        dirs2 == dirs1 \cup {case_defense_dir}
        f1 == WriteToBoth(files, defense_output_dir, case_defense_dir,
                          <<"defense_strategy.md">>, "# Defense Strategy", answers[1])
        f2 == WriteToBoth(f1, defense_output_dir, case_defense_dir,
                          <<"action_items.md">>, "# Action Items", answers[2])
        f3 == WriteToBoth(f2, defense_output_dir, case_defense_dir,
                          <<"case_timeline.md">>, "# Case Timeline", answers[3])
    IN IF ~mkdirOk
       THEN [raised |-> "FileNotFoundError", fs |-> files, dirs |-> dirs1,
             llm |-> 0, missing |-> case_defense_dir, prompts |-> <<>>]
       ELSE [raised |-> "", fs |-> f3, dirs |-> dirs2, llm |-> 3,
             missing |-> case_defense_dir,
             prompts |-> <<StrategyPrompt(self), ActionItemsPrompt(self),
                           TimelinePrompt(self)>>]

\* ---------------------------------------------------------------- commands
\* The candidate analysis files of defend_command (commands.py 129-130).
RunDirAnalysis(run_dir, sanitized) == Child(run_dir, AnalysisName(sanitized))
CaseDirAnalysis(sanitized) == Child(CaseDir, AnalysisName(sanitized))

\* A selection that looks in the case directory before the run directory.
ChooseAnalysisFile_LegacyFirst(given, run_dir, sanitized, files, dirset) ==
    IF given # None THEN given
    ELSE IF Exists(files, dirset, CaseDirAnalysis(sanitized))
    THEN Some(CaseDirAnalysis(sanitized))
    ELSE IF Exists(files, dirset, RunDirAnalysis(run_dir, sanitized))
    THEN Some(RunDirAnalysis(run_dir, sanitized))
    ELSE None

\* A selection that falls back on the case-directory file without looking
\* whether it exists.
ChooseAnalysisFile_NoRaise(given, run_dir, sanitized, files, dirset) ==
    IF given # None THEN given
    ELSE IF Exists(files, dirset, RunDirAnalysis(run_dir, sanitized))
    THEN Some(RunDirAnalysis(run_dir, sanitized))
    ELSE Some(CaseDirAnalysis(sanitized))

\* The analysis file defend_command settles on (commands.py 124-137):
\* None stands for the FileNotFoundError it raises when it finds none.
ChooseAnalysisFile(given, run_dir, sanitized, files, dirset) ==
    IF given # None THEN given
    ELSE IF Exists(files, dirset, RunDirAnalysis(run_dir, sanitized))
    THEN Some(RunDirAnalysis(run_dir, sanitized))
    ELSE IF Exists(files, dirset, CaseDirAnalysis(sanitized))
    THEN Some(CaseDirAnalysis(sanitized))
    ELSE None

\* The files of `after` that `before` does not hold with the same content.
Changed(before, after) ==
    {p \in DOMAIN after : p \notin DOMAIN before \/ before[p] # after[p]}

\* What a command returned and did.  `named` holds the locations its error
\* message names, `remedy` says whether it told the user to run analyze
\* first (commands.py 155-158), `changed` holds the files it wrote, `found`
\* is what the selected analysis file was: "absent", "json", "malformed".
\* `checks` holds the results of its check_ollama_connection calls in
\* order, `escaped` says whether `raised` left the command uncaught, and
\* `cache0` is what the cache file was when its analyzer was constructed.
NoRet ==
    [cmd |-> "none", ok |-> FALSE, raised |-> "", phase1 |-> FALSE,
     run_dir |-> None, wrote |-> None, given |-> None,
     existed |-> <<FALSE, FALSE, FALSE>>, chosen |-> None, loaded |-> None,
     an_dir |-> None, gen_dir |-> None, llm |-> 0, date |-> 0,
     named |-> {}, remedy |-> FALSE, changed |-> {}, found |-> "none",
     checks |-> <<>>, escaped |-> FALSE, cache0 |-> "none"]

\* The handlers of defend_command (commands.py 155-161): FileNotFoundError
\* first, then every Exception; KeyboardInterrupt is not an Exception.
DefendHandles(exc) ==
    exc = "FileNotFoundError" \/ exc # "KeyboardInterrupt"

\* What is at path p of the disk `files`: "absent", or the kind of the file.
KindAt(files, p) == IF p \in DOMAIN files THEN files[p].kind ELSE "absent"

\* The history after a generate_all_materials call m of generator `self`:
\* the analysis data it worked from and the prompts it sent.
Sent(self, m) ==
    IF m.prompts = <<>> THEN sent
    ELSE Append(sent, [data |-> self.analysis_data, prompts |-> m.prompts])

\* defend_command(args): args.analysis is `given`, args.run_dir is `run_dir`
\* when the caller set it (full-process), None otherwise.
DefendCommand(conn, given, run_dir_arg, answers) ==
    LET sanitized == sanitize_model_name(model)
        run_dir == IF run_dir_arg # None THEN run_dir_arg[1]
                   ELSE PathJoin(CaseDir, RunDirName(today, sanitized))
        dirs1 == IF run_dir_arg # None THEN dirs ELSE dirs \cup WithParents(run_dir)
        chosen == ChooseAnalysisFile(given, run_dir, sanitized, fs, dirs1)
        g == DefenseGeneratorInit(model, chosen, TRUE, fs, dirs1)
        m == GenerateAllMaterials(g.self[1], g.fs, g.dirs, answers)
        base == [NoRet EXCEPT !.cmd = "defend", !.given = given,
                     !.checks = <<TRUE>>,
                     !.run_dir = Some(run_dir), !.chosen = chosen,
                     !.found = IF chosen = None THEN "none"
                               ELSE IF chosen[1] \in DOMAIN fs
                               THEN fs[chosen[1]].kind ELSE "absent",
                     !.existed =
                         << given # None /\ Exists(fs, dirs1, given[1]),
                            Exists(fs, dirs1, RunDirAnalysis(run_dir, sanitized)),
                            Exists(fs, dirs1, CaseDirAnalysis(sanitized)) >>]
    IN IF ~conn
       THEN [ret |-> [NoRet EXCEPT !.cmd = "defend", !.raised = "NoConnection",
                          !.checks = <<FALSE>>],
             fs |-> fs, dirs |-> dirs, gen |-> gen, sent |-> sent]
       ELSE IF chosen = None
       THEN [ret |-> [base EXCEPT !.raised = "FileNotFoundError",
                          !.named = {run_dir, CaseDir}, !.remedy = TRUE],
             fs |-> fs, dirs |-> dirs1, gen |-> gen, sent |-> sent]
       ELSE IF g.raised # ""
       THEN [ret |-> [base EXCEPT !.raised = g.raised,
                          !.escaped = ~DefendHandles(g.raised),
                          !.named = IF g.raised = "FileNotFoundError"
                                    THEN {chosen[1]} ELSE {},
                          !.remedy = g.raised = "FileNotFoundError",
                          !.changed = Changed(fs, g.fs)],
             fs |-> g.fs, dirs |-> g.dirs, gen |-> gen, sent |-> sent]
       ELSE IF m.raised # ""
       THEN [ret |-> [base EXCEPT !.raised = m.raised, !.loaded = chosen,
                          !.escaped = ~DefendHandles(m.raised),
                          !.gen_dir = Some(g.self[1].output_dir),
                          !.named = IF m.raised = "FileNotFoundError"
                                    THEN {m.missing} ELSE {},
                          !.remedy = m.raised = "FileNotFoundError",
                          !.changed = Changed(fs, m.fs)],
             fs |-> m.fs, dirs |-> m.dirs, gen |-> g.self,
             sent |-> Sent(g.self[1], m)]
       ELSE [ret |-> [base EXCEPT !.ok = TRUE, !.loaded = chosen, !.llm = m.llm,
                          !.gen_dir = Some(g.self[1].output_dir),
                          !.changed = Changed(fs, m.fs)],
             fs |-> m.fs, dirs |-> m.dirs, gen |-> g.self,
             sent |-> Sent(g.self[1], m)]

\* A combiner that gives up when an input is missing.
combine_documents_Strict(files, inputs, output_path) ==
    LET present == SelectSeq(inputs, LAMBDA p : p \in DOMAIN files)
    IN IF present # inputs
       THEN [raised |-> "FileNotFoundError", fs |-> files]
       ELSE [raised |-> "",
             fs |-> (output_path :> [kind |-> "text",
                                     value |-> Flatten([i \in 1..Len(present) |->
                                                  files[present[i]].value])])
                    @@ files]

\* document.combine_documents: the sections of the inputs that exist,
\* written to output_path; a missing input is passed over.
combine_documents(files, inputs, output_path) ==
    LET present == SelectSeq(inputs, LAMBDA p : p \in DOMAIN files)
    IN [raised |-> "",
        fs |-> (output_path :> [kind |-> "text",
                                value |-> Flatten([i \in 1..Len(present) |->
                                             files[present[i]].value])])
               @@ files]

\* analyze_command after analyze_all_documents returned a non-empty result:
\* the JSON output and the markdown summary written into the run directory.
WriteAnalysisOutput(files, run_dir, sanitized, results) ==
    (RunDirAnalysis(run_dir, sanitized) :> JsonDump(results))
    @@ (Child(run_dir, SummaryName(sanitized)) :> MarkdownSummary(results))
    @@ files

\* ------------------------------------------------------------- histories
\* What a run of analyze_all_documents sees of the world when it starts.
World(self, questions_file) ==
    [pdfs |-> pdfs, qfile |-> qfile, questions_file |-> questions_file,
     default_questions |-> self.default_questions, model |-> self.model,
     output_dir |-> self.output_dir]

NoTally == [calls |-> 0, ext |-> 0, llm |-> 0, late |-> 0]
TallyAt(k) == IF k \in DOMAIN tally THEN tally[k] ELSE NoTally

\* The tally after an analyze_document call r: per fingerprint, the calls of
\* this analyzer, its extractions, its LLM computations, and the calls that
\* were not hits although the fingerprint had been computed before.
Tallied(r) ==
    (r.key :> [calls |-> TallyAt(r.key).calls + 1,
               ext |-> TallyAt(r.key).ext + (IF r.extracted THEN 1 ELSE 0),
               llm |-> TallyAt(r.key).llm + (IF r.llm > 0 THEN 1 ELSE 0),
               late |-> TallyAt(r.key).late
                        + (IF ~r.hit /\ TallyAt(r.key).llm > 0 THEN 1 ELSE 0)])
    @@ tally

\* Whether an LLM call failed: an exception, a status other than 200, or a
\* body without 'response'.
Failed(o) == o.exc \/ o.status # 200 \/ o.response = None

\* The text the LLM service put in its body, if any.
ResponseText(o) == IF o.response # None THEN o.response[1] ELSE <<>>

\* The record kept of an analyze_document call r on document `name`, the
\* LLM calls it made coming to `outcomes`.
CallRecord(self, name, r, outcomes) ==
    [name |-> name, key |-> r.key, questions |-> r.questions, hit |-> r.hit,
     extracted |-> r.extracted, llm |-> r.llm, result |-> r.result,
     asked |-> r.asked,
     failed |-> [i \in 1..r.llm |-> Failed(outcomes[i])],
     texts |-> [i \in 1..r.llm |-> ResponseText(outcomes[i])],
     text |-> extract_text_from_pdf(name) # <<>>,
     cacheBefore |-> self.analysis_cache,
     cacheAfter |-> r.self.analysis_cache,
     diskBefore |-> FileAt(self.cache_file),
     diskAfter |-> IF self.cache_file \in DOMAIN r.fs
                   THEN r.fs[self.cache_file] ELSE NoFile]

FpRecord(name, r) ==
    [name |-> name, questions |-> r.questions, content |-> pdfs[name],
     seed |-> seed, key |-> r.key]

\* The run just finished, appended to the last one.
Finished(j) ==
    LET rec == [world |-> j.world, results |-> j.results, llm |-> j.llm,
                fresh |-> j.fresh, stable |-> j.stable, seed |-> seed]
    IN IF runs = <<>> THEN <<rec>> ELSE <<runs[Len(runs)], rec>>

\* ------------------------------------------------------------------- Init
Init ==
    /\ today = 1
    /\ seed = 0
    /\ pdfs = [d \in DocNames |-> IF d = DocA THEN 1 ELSE -1]
    /\ qfile = None
    /\ defq = None
    /\ model \in Models
    /\ fs = <<>>
    /\ dirs = {CaseDir}
    /\ analyzer = None
    /\ gen = None
    /\ pc = "idle"
    /\ job = None
    /\ ret = NoRet
    /\ last = None
    /\ tally = <<>>
    /\ fpLog = {}
    /\ runs = <<>>
    /\ ops = 0
    /\ edits = 0
    /\ sent = <<>>
    /\ peer = None
    /\ exchanges = <<>>

\* ------------------------------------------------------- the environment
\* An environment change during a run marks the run as disturbed.
Disturbed == IF job # None THEN Some([job[1] EXCEPT !.stable = FALSE]) ELSE job

\* Midnight passes.  Nothing reads the clock inside the document loop, so a
\* day change during the loop is the same as one right after it.
Tick ==
    /\ today < MaxDate
    /\ pc # "docs"
    /\ today' = today + 1
    /\ UNCHANGED <<seed, pdfs, qfile, defq, model, fs, dirs, analyzer, gen, pc,
                   job, ret, last, tally, fpLog, runs, ops, edits,
                   sent, peer, exchanges>>

\* A PDF is placed in the case directory, or its content replaced.
PutDoc(d, c) ==
    /\ edits < MaxEdits
    /\ pdfs[d] # c
    /\ pdfs' = [pdfs EXCEPT ![d] = c]
    /\ job' = Disturbed
    /\ edits' = edits + 1
    /\ UNCHANGED <<today, seed, qfile, defq, model, fs, dirs, analyzer, gen, pc,
                   ret, last, tally, fpLog, runs, ops,
                   sent, peer, exchanges>>

\* The user's questions file is written.
EditQuestions(qs) ==
    /\ edits < MaxEdits
    /\ qfile # Some(qs)
    /\ qfile' = Some(qs)
    /\ job' = IF job # None
              THEN Some([job[1] EXCEPT !.stable = FALSE, !.qchanged = TRUE])
              ELSE job
    /\ edits' = edits + 1
    /\ UNCHANGED <<today, seed, pdfs, defq, model, fs, dirs, analyzer, gen, pc,
                   ret, last, tally, fpLog, runs, ops,
                   sent, peer, exchanges>>

\* The packaged questions.md is installed.
PutDefaultQuestions ==
    /\ edits < MaxEdits
    /\ defq = None
    /\ defq' = Some(<<Q2>>)
    /\ job' = Disturbed
    /\ edits' = edits + 1
    /\ UNCHANGED <<today, seed, pdfs, qfile, model, fs, dirs, analyzer, gen, pc,
                   ret, last, tally, fpLog, runs, ops,
                   sent, peer, exchanges>>

\* An analysis file an earlier version or the user left behind: at the
\* legacy location in the case directory, or at a path of the user's choice.
UserAnalysis == << <<"elsewhere">>, <<"analysis.json">> >>
StrayAnalysis == << [filename |-> DocA, analysis |-> <<>>] >>
AnalysisFiles == {JsonDump(StrayAnalysis), Malformed}
PutAnalysis(p, file) ==
    /\ edits < MaxEdits
    /\ pc # "docs"
    /\ p \notin DOMAIN fs
    /\ fs' = (p :> file) @@ fs
    /\ dirs' = dirs \cup WithParents(Parent(p))
    /\ edits' = edits + 1
    /\ UNCHANGED <<today, seed, pdfs, qfile, defq, model, analyzer, gen, pc,
                   job, ret, last, tally, fpLog, runs, ops,
                   sent, peer, exchanges>>

\* A cache file an earlier run left in today's run directory: an empty
\* cache, or a file cut short that json.load rejects.
PutCache(file) ==
    /\ edits < MaxEdits
    /\ pc = "idle"
    /\ LET run_dir == PathJoin(CaseDir, RunDirName(today, sanitize_model_name(model)))
           p == Child(run_dir, <<"analysis_cache.json">>)
       IN /\ p \notin DOMAIN fs
          /\ fs' = (p :> file) @@ fs
          /\ dirs' = dirs \cup WithParents(run_dir)
    /\ edits' = edits + 1
    /\ UNCHANGED <<today, seed, pdfs, qfile, defq, model, analyzer, gen, pc,
                   job, ret, last, tally, fpLog, runs, ops, sent, peer, exchanges>>

\* The process exits and a new one starts: memory is lost, the hash seed is
\* drawn again, the disk stays.
NewProcess(s) ==
    /\ pc = "idle"
    /\ analyzer # None \/ gen # None \/ ret.cmd # "none"
    /\ ops < MaxOps
    /\ seed' = s
    /\ analyzer' = None
    /\ gen' = None
    /\ tally' = <<>>
    /\ ret' = NoRet
    /\ UNCHANGED <<today, pdfs, qfile, defq, model, fs, dirs, pc, job, last,
                   fpLog, runs, ops, edits,
                   sent, peer, exchanges>>

\* ------------------------------------------------------------ the program
\* The job of an analyze_all_documents call: `self` has the default
\* questions stored, the queue is the sorted PDFs still to analyse, fs0 is
\* the disk as the command or call found it.
NewJob(cmd, self, questions_file, run_dir) ==
    [cmd |-> cmd, queue |-> SortedPdfs, results |-> <<>>,
     questions_file |-> questions_file, run_dir |-> run_dir, llm |-> 0,
     date |-> today, fs0 |-> fs,
     fresh |-> analyzer = None \/ analyzer[1].default_questions = None,
     world |-> World(self, questions_file), stable |-> TRUE,
     qlog |-> <<>>, qchanged |-> FALSE, pending |-> None]

\* Library use: analyzer.analyze_all_documents(questions_file,
\* default_questions), up to the loop, on the analyzer of the process; the
\* first call constructs it, CaseAnalyzer(case_dir, model=model).
AnalyzeAllStart(questions_file, default_questions) ==
    /\ pc = "idle"
    /\ ops < MaxOps
    /\ LET a == IF analyzer = None THEN CaseAnalyzerInit(model, None, fs, dirs)
                ELSE [raised |-> "", self |-> analyzer, fs |-> fs, dirs |-> dirs]
           self == [a.self[1] EXCEPT
                       !.default_questions = Some(DefaultQuestions(default_questions))]
           j == NewJob("analyze_all", self, questions_file, self.output_dir)
       IN /\ fs' = a.fs
          /\ dirs' = a.dirs
          /\ tally' = IF analyzer = None THEN <<>> ELSE tally
          /\ IF a.raised # ""
             THEN /\ ret' = [NoRet EXCEPT !.cmd = "analyze_all", !.raised = a.raised,
                                 !.escaped = TRUE]
                  /\ UNCHANGED <<analyzer, pc, job, runs>>
             ELSE /\ analyzer' = Some(self)
                  /\ IF SortedPdfs = <<>>
                     THEN /\ pc' = "idle"
                          /\ job' = None
                          /\ runs' = Finished(j)
                          /\ ret' = [NoRet EXCEPT !.cmd = "analyze_all", !.ok = TRUE]
                     ELSE /\ pc' = "docs"
                          /\ job' = Some(j)
                          /\ UNCHANGED <<runs, ret>>
    /\ ops' = ops + 1
    /\ UNCHANGED <<today, seed, pdfs, qfile, defq, model, gen, last, fpLog,
                   edits,
                   sent, peer, exchanges>>

\* analyze_command with the connection checked after the analyzer is
\* constructed.
AnalyzeCommandBegin_ConnectLate(cmd, conn, questions_arg, run_dir_arg, dirset) ==
    LET sanitized == sanitize_model_name(model)
        run_dir == IF run_dir_arg # None THEN run_dir_arg[1]
                   ELSE PathJoin(CaseDir, RunDirName(today, sanitized))
        dirs1 == IF run_dir_arg # None THEN dirset
                 ELSE dirset \cup WithParents(run_dir)
    IN \E a \in {CaseAnalyzerInit(model, Some(run_dir), fs, dirs1)} :
    LET questions == IF questions_arg
                     THEN (IF Truthy(load_questions_from_file(qfile))
                           THEN qfile[1] ELSE FALLBACK_QUESTIONS)
                     ELSE (IF Truthy(load_questions_from_file(defq))
                           THEN defq[1] ELSE FALLBACK_QUESTIONS)
        self == [a.self[1] EXCEPT
                    !.default_questions = Some(DefaultQuestions(Some(questions)))]
        j == [NewJob(cmd, self, questions_arg, run_dir) EXCEPT !.fresh = TRUE]
        base == [NoRet EXCEPT !.cmd = cmd, !.run_dir = Some(run_dir),
                     !.checks = <<TRUE>>,
                     !.cache0 = KindAt(fs, Child(run_dir, <<"analysis_cache.json">>))]
    IN IF ~conn /\ a.raised = ""
       THEN /\ ret' = [NoRet EXCEPT !.cmd = cmd, !.raised = "NoConnection",
                           !.checks = <<FALSE>>, !.changed = Changed(fs, a.fs)]
            /\ pc' = "idle"
            /\ fs' = a.fs
            /\ dirs' = a.dirs
            /\ UNCHANGED <<analyzer, job, runs>>
       ELSE IF a.raised # ""
       THEN /\ ret' = [base EXCEPT !.raised = a.raised, !.escaped = TRUE,
                                     !.changed = Changed(fs, a.fs)]
            /\ pc' = "idle"
            /\ fs' = a.fs
            /\ dirs' = a.dirs
            /\ UNCHANGED <<analyzer, job, runs>>
       ELSE /\ analyzer' = Some(self)
            /\ fs' = a.fs
            /\ dirs' = a.dirs
            /\ IF SortedPdfs = <<>>
               THEN /\ ret' = [base EXCEPT !.an_dir = Some(self.output_dir),
                                            !.changed = Changed(fs, a.fs)]
                    /\ pc' = "idle"
                    /\ job' = None
                    /\ runs' = Finished(j)
               ELSE /\ pc' = "docs"
                    /\ job' = Some(j)
                    /\ UNCHANGED <<runs, ret>>

\* analyze_command(args) up to the loop over the documents.  `run_dir_arg`
\* is args.run_dir when full-process set it; `cmd` names the command.
AnalyzeCommandBegin(cmd, conn, questions_arg, run_dir_arg, dirset) ==
    LET sanitized == sanitize_model_name(model)
        run_dir == IF run_dir_arg # None THEN run_dir_arg[1]
                   ELSE PathJoin(CaseDir, RunDirName(today, sanitized))
        dirs1 == IF run_dir_arg # None THEN dirset
                 ELSE dirset \cup WithParents(run_dir)
    IN \E a \in {CaseAnalyzerInit(model, Some(run_dir), fs, dirs1)} :
    LET questions == IF questions_arg
                     THEN (IF Truthy(load_questions_from_file(qfile))
                           THEN qfile[1] ELSE FALLBACK_QUESTIONS)
                     ELSE (IF Truthy(load_questions_from_file(defq))
                           THEN defq[1] ELSE FALLBACK_QUESTIONS)
        self == [a.self[1] EXCEPT
                    !.default_questions = Some(DefaultQuestions(Some(questions)))]
        j == [NewJob(cmd, self, questions_arg, run_dir) EXCEPT !.fresh = TRUE]
        base == [NoRet EXCEPT !.cmd = cmd, !.run_dir = Some(run_dir),
                     !.checks = <<TRUE>>,
                     !.cache0 = KindAt(fs, Child(run_dir, <<"analysis_cache.json">>))]
    IN IF ~conn
       THEN /\ ret' = [NoRet EXCEPT !.cmd = cmd, !.raised = "NoConnection",
                           !.checks = <<FALSE>>]
            /\ pc' = "idle"
            /\ dirs' = dirset
            /\ UNCHANGED <<fs, analyzer, job, runs>>
       ELSE IF a.raised # ""
       THEN /\ ret' = [base EXCEPT !.raised = a.raised, !.escaped = TRUE,
                                     !.changed = Changed(fs, a.fs)]
            /\ pc' = "idle"
            /\ fs' = a.fs
            /\ dirs' = a.dirs
            /\ UNCHANGED <<analyzer, job, runs>>
       ELSE /\ analyzer' = Some(self)
            /\ fs' = a.fs
            /\ dirs' = a.dirs
            /\ IF SortedPdfs = <<>>
               THEN /\ ret' = [base EXCEPT !.an_dir = Some(self.output_dir),
                                            !.changed = Changed(fs, a.fs)]
                    /\ pc' = "idle"
                    /\ job' = None
                    /\ runs' = Finished(j)
               ELSE /\ pc' = "docs"
                    /\ job' = Some(j)
                    /\ UNCHANGED <<runs, ret>>

\* The analyze subcommand.
AnalyzeCommandStart(conn, questions_arg) ==
    /\ pc = "idle"
    /\ ops < MaxOps
    /\ AnalyzeCommandBegin("analyze", conn, questions_arg, None, dirs)
    /\ tally' = <<>>
    /\ ops' = ops + 1
    /\ UNCHANGED <<today, seed, pdfs, qfile, defq, model, gen, last, fpLog,
                   edits,
                   sent, peer, exchanges>>

\* The full-process subcommand: the run directory computed and created,
\* then analyze_command called with it.
FullProcessStart(conn, questions_arg) ==
    /\ pc = "idle"
    /\ ops < MaxOps
    /\ LET sanitized == sanitize_model_name(model)
           run_dir == PathJoin(CaseDir, RunDirName(today, sanitized))
       IN AnalyzeCommandBegin("full", conn, questions_arg, Some(run_dir),
                              dirs \cup WithParents(run_dir))
    /\ tally' = <<>>
    /\ ops' = ops + 1
    /\ UNCHANGED <<today, seed, pdfs, qfile, defq, model, gen, last, fpLog,
                   edits,
                   sent, peer, exchanges>>

\* One turn of the loop of analyze_all_documents: analyze_document on the
\* next PDF, its result appended.
\* An analyze_all_documents loop that puts a document whose LLM call failed
\* back at the end of the list instead of recording its analysis.
AnalyzeDocStep_Requeue(outcomes) ==
    /\ pc = "docs"
    /\ job[1].queue # <<>>
    /\ IF \E i \in DOMAIN outcomes : Failed(outcomes[i])
       THEN /\ job' = Some([job[1] EXCEPT !.queue = Append(Tail(@), Head(@))])
            /\ UNCHANGED <<analyzer, fs, last, tally, fpLog>>
       ELSE \E r \in {AnalyzeDocument(analyzer[1], Head(job[1].queue),
                                            job[1].questions_file,
                                            [i \in DOMAIN outcomes |->
                                                query_ollama(outcomes[i])])} :
                 LET j == job[1]
                     name == Head(j.queue)
                 IN /\ analyzer' = Some(r.self)
                    /\ fs' = r.fs
                    /\ job' = Some([j EXCEPT !.queue = Tail(@),
                                             !.results = Append(@, r.result),
                                             !.llm = @ + r.llm,
                                             !.qlog = Append(@, r.questions)])
                    /\ last' = Some(CallRecord(analyzer[1], name, r, outcomes))
                    /\ tally' = Tallied(r)
                    /\ fpLog' = fpLog \cup {FpRecord(name, r)}
    /\ UNCHANGED <<today, seed, pdfs, qfile, defq, model, dirs, gen, pc, ret,
                   runs, ops, edits,
                   sent, peer, exchanges>>

AnalyzeDocStep(outcomes) ==
    /\ pc = "docs"
    /\ job[1].queue # <<>>
    /\ \E r \in {AnalyzeDocument(analyzer[1], Head(job[1].queue),
                                  job[1].questions_file,
                                  [i \in DOMAIN outcomes |->
                                      query_ollama(outcomes[i])])} :
       LET j == job[1]
           name == Head(j.queue)
       IN /\ analyzer' = Some(r.self)
          /\ fs' = r.fs
          /\ job' = Some([j EXCEPT !.queue = Tail(@),
                                   !.results = Append(@, r.result),
                                   !.llm = @ + r.llm,
                                   !.qlog = Append(@, r.questions)])
          /\ last' = Some(CallRecord(analyzer[1], name, r, outcomes))
          /\ tally' = Tallied(r)
          /\ fpLog' = fpLog \cup {FpRecord(name, r)}
    /\ UNCHANGED <<today, seed, pdfs, qfile, defq, model, dirs, gen, pc, ret,
                   runs, ops, edits,
                   sent, peer, exchanges>>

\* The length of the text json.dump writes for a cache: per entry its key,
\* its file name, its questions and answers and the punctuation around them.
RECURSIVE DumpLen(_)
DumpLen(cache) ==
    IF DOMAIN cache = {} THEN 2
    ELSE LET k == CHOOSE x \in DOMAIN cache : TRUE
             e == cache[k]
         IN Len(k) + Len(e.filename) + 4
            + Len(Flatten([i \in 1..Len(e.analysis) |->
                              e.analysis[i][1] \o e.analysis[i][2] \o <<",", ":">>]))
            + DumpLen([x \in DOMAIN cache \ {k} |-> cache[x]])

\* What a file holds after `content` is written from offset 0 by a process
\* that opened it with mode 'w': the content, unless another process wrote
\* a longer text since the open, whose tail then stays behind the content.
WriteOver(existing, content) ==
    IF existing = Truncated THEN content
    ELSE IF existing.kind = "json"
            /\ DumpLen(existing.value) <= DumpLen(content.value)
    THEN content
    ELSE Malformed

\* analyze_document on the next PDF up to the open(cache_file, 'w') of
\* save_cache (analyzer.py 65): the analysis is computed and stored in
\* memory, the cache file is truncated.  A call that stores nothing (a cache
\* hit, a PDF without text) runs to its end.
AnalyzeDocOpen(outcomes) ==
    /\ pc = "docs"
    /\ job[1].queue # <<>>
    /\ \E r \in {AnalyzeDocument(analyzer[1], Head(job[1].queue),
                                  job[1].questions_file,
                                  [i \in DOMAIN outcomes |->
                                      query_ollama(outcomes[i])])} :
          IF r.self = analyzer[1]
          THEN AnalyzeDocStep(outcomes)
          ELSE /\ analyzer' = Some(r.self)
               /\ fs' = (r.self.cache_file :> Truncated) @@ fs
               /\ job' = Some([job[1] EXCEPT !.pending =
                                  Some([r |-> r, outcomes |-> outcomes,
                                        before |-> analyzer[1],
                                        disk0 |-> FileAt(r.self.cache_file)])])
               /\ pc' = "saving"
               /\ UNCHANGED <<today, seed, pdfs, qfile, defq, model, dirs, gen,
                              ret, last, tally, fpLog, runs, ops, edits, sent,
                              peer, exchanges>>

\* The json.dump of save_cache (analyzer.py 66) and the rest of
\* analyze_document: the text is written over the file from its start and
\* the result is appended to the results of the run.
AnalyzeDocWrite ==
    /\ pc = "saving"
    /\ LET j == job[1]
           p == j.pending[1]
           name == Head(j.queue)
           cf == analyzer[1].cache_file
       IN /\ fs' = (cf :> WriteOver(FileAt(cf), p.r.fs[cf])) @@ fs
          /\ job' = Some([j EXCEPT !.queue = Tail(@),
                                   !.results = Append(@, p.r.result),
                                   !.llm = @ + p.r.llm,
                                   !.qlog = Append(@, p.r.questions),
                                   !.pending = None])
          /\ last' = Some([CallRecord(p.before, name, p.r, p.outcomes) EXCEPT
                              !.diskBefore = p.disk0, !.diskAfter = fs'[cf]])
          /\ tally' = Tallied(p.r)
          /\ fpLog' = fpLog \cup {FpRecord(name, p.r)}
    /\ pc' = "docs"
    /\ UNCHANGED <<today, seed, pdfs, qfile, defq, model, dirs, analyzer, gen,
                   ret, runs, ops, edits, sent, peer, exchanges>>

\* The process is interrupted inside analyze_all_documents (Ctrl-C, a kill):
\* nothing catches KeyboardInterrupt before main (themis.py 161-174), the
\* process exits with what it had written so far.
Interrupt ==
    /\ pc \in {"docs", "saving"}
    /\ ret' = [NoRet EXCEPT !.cmd = job[1].cmd, !.raised = "KeyboardInterrupt",
                   !.escaped = TRUE, !.checks = <<TRUE>>,
                   !.run_dir = Some(analyzer[1].output_dir),
                   !.llm = job[1].llm, !.date = job[1].date,
                   !.changed = Changed(job[1].fs0, fs)]
    /\ pc' = "idle"
    /\ job' = None
    /\ analyzer' = None
    /\ UNCHANGED <<today, seed, pdfs, qfile, defq, model, fs, dirs, gen, last,
                   tally, fpLog, runs, ops, edits, sent, peer, exchanges>>

\* The scheduler takes the processor from the running process and gives it
\* to the other process working on the case directory, started with hash
\* seed s if there is none yet.
Switch(s) ==
    /\ peer' = Some([seed |-> seed, analyzer |-> analyzer, pc |-> pc,
                     job |-> job, tally |-> tally])
    /\ IF peer = None
       THEN /\ analyzer # None
            /\ seed' = s
            /\ analyzer' = None
            /\ pc' = "idle"
            /\ job' = None
            /\ tally' = <<>>
       ELSE /\ s = peer[1].seed
            /\ seed' = peer[1].seed
            /\ analyzer' = peer[1].analyzer
            /\ pc' = peer[1].pc
            /\ job' = peer[1].job
            /\ tally' = peer[1].tally
    /\ UNCHANGED <<today, pdfs, qfile, defq, model, fs, dirs, gen, ret, last,
                   fpLog, runs, ops, edits, sent, exchanges>>

\* analyze_all_documents returns its results; analyze_command goes on to
\* write its output, and full-process to its defense phase.
AnalyzeAllReturn ==
    /\ pc = "docs"
    /\ job[1].queue = <<>>
    /\ LET j == job[1]
           sanitized == sanitize_model_name(model)
           done == [NoRet EXCEPT !.cmd = j.cmd, !.ok = TRUE, !.phase1 = TRUE,
                        !.run_dir = Some(j.run_dir),
                        !.an_dir = Some(analyzer[1].output_dir),
                        !.llm = j.llm, !.date = j.date,
                        !.checks = IF j.cmd = "analyze_all" THEN <<>> ELSE <<TRUE>>,
                        !.cache0 = KindAt(j.fs0, analyzer[1].cache_file)]
       IN /\ runs' = Finished(j)
          /\ IF j.cmd = "analyze_all"
             THEN /\ ret' = [done EXCEPT !.changed = Changed(j.fs0, fs)]
                  /\ pc' = "idle"
                  /\ fs' = fs
             ELSE /\ fs' = WriteAnalysisOutput(fs, j.run_dir, sanitized, j.results)
                  /\ ret' = [done EXCEPT
                                !.wrote = Some(RunDirAnalysis(j.run_dir, sanitized)),
                                !.changed = Changed(j.fs0, fs')]
                  /\ pc' = IF j.cmd = "full" THEN "fp_defend" ELSE "idle"
    /\ job' = IF pc' = "fp_defend" THEN job ELSE None
    /\ analyzer' = IF job[1].cmd = "analyze_all" THEN analyzer ELSE None
    /\ UNCHANGED <<today, seed, pdfs, qfile, defq, model, dirs, gen,
                   last, tally, fpLog, ops, edits,
                   sent, peer, exchanges>>

\* The inputs of combine_documents in full_process_command (210-216).
CombineInputs(run_dir, sanitized) ==
    << Child(run_dir, SummaryName(sanitized)),
       Child(Child(run_dir, <<"defense_materials">>), <<"defense_strategy.md">>),
       Child(Child(run_dir, <<"defense_materials">>), <<"action_items.md">>),
       Child(Child(run_dir, <<"defense_materials">>), <<"case_timeline.md">>) >>

\* full_process_command after the analysis phase succeeded: defend_command
\* with the run directory, then the combined document.
FullProcessDefend(conn, answers) ==
    /\ pc = "fp_defend"
    /\ \E d \in {DefendCommand(conn, None, Some(job[1].run_dir), answers)} :
       LET j == job[1]
           sanitized == sanitize_model_name(model)
           combined == Child(CaseDir, SubSeq(Head(Tail(j.run_dir)), 1, 9)
                                        \o sanitized \o <<".md">>)
       IN /\ fs' = IF d.ret.ok
                   THEN combine_documents(d.fs, CombineInputs(j.run_dir, sanitized),
                                          combined).fs
                   ELSE d.fs
          /\ ret' = [d.ret EXCEPT !.cmd = "full", !.phase1 = TRUE,
                         !.wrote = ret.wrote, !.an_dir = ret.an_dir,
                         !.date = j.date, !.cache0 = ret.cache0,
                         !.checks = ret.checks \o d.ret.checks,
                         !.changed = Changed(j.fs0, fs')]
          /\ dirs' = d.dirs
          /\ gen' = d.gen
          /\ sent' = d.sent
    /\ pc' = "idle"
    /\ job' = None
    /\ UNCHANGED <<today, seed, pdfs, qfile, defq, model, analyzer, last, tally,
                   fpLog, runs, ops, edits, peer, exchanges>>

\* The defend subcommand, without or with --analysis.
DefendCommandRun(conn, given, answers) ==
    /\ pc = "idle"
    /\ ops < MaxOps
    /\ \E d \in {DefendCommand(conn, given, None, answers)} :
          /\ ret' = d.ret
          /\ fs' = d.fs
          /\ dirs' = d.dirs
          /\ gen' = d.gen
          /\ sent' = d.sent
    /\ ops' = ops + 1
    /\ UNCHANGED <<today, seed, pdfs, qfile, defq, model, analyzer, pc, job,
                   last, tally, fpLog, runs, edits, peer, exchanges>>

\* DefenseGenerator(case_dir, model=model, analysis_file=given) called
\* directly, with the parameters its signature has.
NewGenerator(given) ==
    /\ pc = "idle"
    /\ ops < MaxOps
    /\ \E g \in {DefenseGeneratorInit(model, given, FALSE, fs, dirs)} :
          /\ gen' = g.self
          /\ fs' = g.fs
          /\ dirs' = g.dirs
          /\ ret' = [NoRet EXCEPT !.cmd = "DefenseGenerator", !.ok = g.raised = "",
                         !.raised = g.raised, !.given = given,
                         !.escaped = g.raised # "",
                         !.found = IF g.raised = "FileNotFoundError" THEN "absent"
                                   ELSE IF g.raised = "JSONDecodeError"
                                   THEN "malformed" ELSE "json",
                         !.changed = Changed(fs, g.fs),
                         !.loaded = IF g.raised = "" THEN Some(g.self[1].analysis_file)
                                    ELSE None,
                         !.gen_dir = IF g.raised = "" THEN Some(g.self[1].output_dir)
                                     ELSE None]
    /\ ops' = ops + 1
    /\ UNCHANGED <<today, seed, pdfs, qfile, defq, model, analyzer, pc, job,
                   last, tally, fpLog, runs, edits,
                   sent, peer, exchanges>>

\* generator.generate_all_materials() called directly.
GenerateAll(answers) ==
    /\ pc = "idle"
    /\ ops < MaxOps
    /\ gen # None
    /\ \E m \in {GenerateAllMaterials(gen[1], fs, dirs, answers)} :
          /\ fs' = m.fs
          /\ dirs' = m.dirs
          /\ ret' = [NoRet EXCEPT !.cmd = "generate_all", !.ok = m.raised = "",
                         !.raised = m.raised, !.llm = m.llm,
                         !.escaped = m.raised # "",
                         !.gen_dir = Some(gen[1].output_dir)]
          /\ sent' = Sent(gen[1], m)
    /\ ops' = ops + 1
    /\ UNCHANGED <<today, seed, pdfs, qfile, defq, model, analyzer, gen, pc,
                   job, last, tally, fpLog, runs, edits, peer, exchanges>>

\* DefenseGenerator(case_dir, model=model, analysis_file=given)
\* .generate_all_materials(): the two calls above made one after the other.
DefendDirect(given, answers) ==
    /\ pc = "idle"
    /\ ops < MaxOps
    /\ LET g == DefenseGeneratorInit(model, given, FALSE, fs, dirs)
           m == GenerateAllMaterials(g.self[1], g.fs, g.dirs, answers)
       IN IF g.raised # ""
          THEN /\ gen' = None
               /\ fs' = g.fs
               /\ dirs' = g.dirs
               /\ ret' = [NoRet EXCEPT !.cmd = "DefenseGenerator",
                              !.raised = g.raised, !.given = given,
                              !.escaped = TRUE,
                              !.changed = Changed(fs, g.fs)]
               /\ sent' = sent
          ELSE /\ gen' = g.self
               /\ fs' = m.fs
               /\ dirs' = m.dirs
               /\ ret' = [NoRet EXCEPT !.cmd = "generate_all", !.ok = m.raised = "",
                              !.raised = m.raised, !.llm = m.llm, !.given = given,
                              !.escaped = m.raised # "",
                              !.loaded = Some(g.self[1].analysis_file),
                              !.changed = Changed(fs, m.fs),
                              !.gen_dir = Some(g.self[1].output_dir)]
               /\ sent' = Sent(g.self[1], m)
    /\ ops' = ops + 1
    /\ UNCHANGED <<today, seed, pdfs, qfile, defq, model, analyzer, pc, job,
                   last, tally, fpLog, runs, edits, peer, exchanges>>

\* The three artifacts of generate_all_materials and their headings.
ArtifactNames ==
    {<<"defense_strategy.md">>, <<"action_items.md">>, <<"case_timeline.md">>}
HeadingOf(name) ==
    IF name = <<"defense_strategy.md">> THEN "# Defense Strategy"
    ELSE IF name = <<"action_items.md">> THEN "# Action Items"
    ELSE "# Case Timeline"

\* The run directory of a command started on day d (commands.py 171-175).
RunDirOn(d) == PathJoin(CaseDir, RunDirName(d, sanitize_model_name(model)))

\* f"{date_str}_{sanitized_model}.md" in the case directory (219-220).
CombinedPath(d, sanitized) ==
    Child(CaseDir, RunDirName(d, sanitized) \o <<".md">>)

\* combine_documents called on the four paths of today's run directory.
CombineDirect ==
    /\ pc = "idle"
    /\ ops < MaxOps
    /\ LET sanitized == sanitize_model_name(model)
           run_dir == PathJoin(CaseDir, RunDirName(today, sanitized))
           c == combine_documents(fs, CombineInputs(run_dir, sanitized),
                                  CombinedPath(today, sanitized))
       IN /\ fs' = c.fs
          /\ ret' = [NoRet EXCEPT !.cmd = "combine", !.ok = c.raised = "",
                         !.raised = c.raised, !.run_dir = Some(run_dir),
                         !.wrote = IF c.raised = ""
                                   THEN Some(CombinedPath(today, sanitized))
                                   ELSE None,
                         !.changed = Changed(fs, c.fs), !.date = today]
    /\ ops' = ops + 1
    /\ UNCHANGED <<today, seed, pdfs, qfile, defq, model, dirs, analyzer, gen,
                   pc, job, last, tally, fpLog, runs, edits, sent, peer, exchanges>>

\* ------------------------------------------------------ the specification
OutcomeLists == [1..2 -> Outcomes]
\* The outcomes that matter to the cache: a call fails or answers.
CacheOutcomeLists == [1..2 -> {o \in Outcomes : o.exc \/ ~Failed(o)}]
MaterialLists == [1..3 -> Answers]
AnalysisArgs == {None, Some(UserAnalysis)}

Next ==
    \/ Tick
    \/ \E d \in CacheDocs, c \in Contents : PutDoc(d, c)
    \/ \E qs \in QLists \cup {<<>>} : EditQuestions(qs)
    \/ PutDefaultQuestions
    \/ \E p \in {UserAnalysis, CaseDirAnalysis(sanitize_model_name(model))},
          file \in AnalysisFiles :
           PutAnalysis(p, file)
    \/ \E s \in Seeds : NewProcess(s)
    \/ \E qf \in BOOLEAN, dq \in {None, Some(<<Q1>>)} : AnalyzeAllStart(qf, dq)
    \/ \E conn \in BOOLEAN, qf \in BOOLEAN : AnalyzeCommandStart(conn, qf)
    \/ \E conn \in BOOLEAN, qf \in BOOLEAN : FullProcessStart(conn, qf)
    \/ \E outcomes \in OutcomeLists : AnalyzeDocStep(outcomes)
    \/ AnalyzeAllReturn
    \/ \E conn \in BOOLEAN, answers \in MaterialLists :
           FullProcessDefend(conn, answers)
    \/ \E conn \in BOOLEAN, given \in AnalysisArgs, answers \in MaterialLists :
           DefendCommandRun(conn, given, answers)
    \/ \E given \in AnalysisArgs : NewGenerator(given)
    \/ \E answers \in MaterialLists : GenerateAll(answers)

Spec == Init /\ [][Next]_vars

\* The analysis phase and its cache: the analyzer, the documents and the
\* questions, over several processes.
NextCache ==
    \/ \E d \in CacheDocs, c \in Contents : PutDoc(d, c)
    \/ \E qs \in QLists \cup {<<>>} : EditQuestions(qs)
    \/ PutDefaultQuestions
    \/ \E s \in Seeds : NewProcess(s)
    \/ \E qf \in BOOLEAN, dq \in {None, Some(<<Q1>>)} : AnalyzeAllStart(qf, dq)
    \/ \E conn \in BOOLEAN, qf \in BOOLEAN : AnalyzeCommandStart(conn, qf)
    \/ \E outcomes \in CacheOutcomeLists : AnalyzeDocStep(outcomes)
    \/ AnalyzeAllReturn

SpecCache == Init /\ [][NextCache]_vars

\* The case directories the document loop starts from: empty, or PDFs with
\* (1) and without (0) extractable text under up to three names.
DocSets ==
    { [d \in DocNames |-> -1],
      (DocA :> 0) @@ (DocB :> -1) @@ (DocC :> -1),
      (DocA :> 0) @@ (DocB :> 1) @@ (DocC :> -1),
      (DocA :> 1) @@ (DocB :> -1) @@ (DocC :> 1),
      (DocA :> 1) @@ (DocB :> 0) @@ (DocC :> 1) }

\* The document loop on its own: case directories of up to three PDFs with
\* and without extractable text, analysed by the library call and by the
\* analyze command, a document coming or going meanwhile.
InitDocs ==
    /\ today = 1
    /\ seed = 0
    /\ pdfs \in DocSets
    /\ qfile = None
    /\ defq = None
    /\ model = <<"m", ":", "7">>
    /\ fs = <<>>
    /\ dirs = {CaseDir}
    /\ analyzer = None
    /\ gen = None
    /\ pc = "idle"
    /\ job = None
    /\ ret = NoRet
    /\ last = None
    /\ tally = <<>>
    /\ fpLog = {}
    /\ runs = <<>>
    /\ ops = 0
    /\ edits = 0
    /\ sent = <<>>
    /\ peer = None
    /\ exchanges = <<>>

NextDocs ==
    \/ \E c \in {-1, 1} : PutDoc(DocB, c)
    \/ AnalyzeAllStart(FALSE, None)
    \/ \E conn \in BOOLEAN : AnalyzeCommandStart(conn, FALSE)
    \/ \E outcomes \in OutcomeLists : AnalyzeDocStep(outcomes)
    \/ AnalyzeAllReturn

SpecDocs == InitDocs /\ [][NextDocs]_vars

\* The commands and the files they exchange: analyze, defend, full-process
\* and the defense generator, over several days.
NextPipeline ==
    \/ Tick
    \/ \E p \in {UserAnalysis, CaseDirAnalysis(sanitize_model_name(model))},
          file \in AnalysisFiles :
           PutAnalysis(p, file)
    \/ \E s \in Seeds : NewProcess(s)
    \/ \E conn \in BOOLEAN, qf \in BOOLEAN : AnalyzeCommandStart(conn, qf)
    \/ \E conn \in BOOLEAN, qf \in BOOLEAN : FullProcessStart(conn, qf)
    \/ \E outcomes \in CacheOutcomeLists : AnalyzeDocStep(outcomes)
    \/ AnalyzeAllReturn
    \/ \E conn \in BOOLEAN, answers \in MaterialLists :
           FullProcessDefend(conn, answers)
    \/ \E conn \in BOOLEAN, given \in AnalysisArgs, answers \in MaterialLists :
           DefendCommandRun(conn, given, answers)
    \/ \E given \in AnalysisArgs : NewGenerator(given)
    \/ \E answers \in MaterialLists : GenerateAll(answers)

SpecPipeline == Init /\ [][NextPipeline]_vars

\* Analysis collections that differ in the document, in the question and
\* in the answer.
Collections ==
    { << [filename |-> DocA, analysis |-> << <<Q1, <<"r">> >> >>] >>,
      << [filename |-> DocB, analysis |-> << <<Q1, <<"r">> >> >>] >>,
      << [filename |-> DocA, analysis |-> << <<Q2, <<"r">> >> >>] >>,
      << [filename |-> DocA, analysis |-> << <<Q1, <<>> >> >>] >>,
      << [filename |-> DocA, analysis |-> << <<Q1, <<"r">> >> >>],
         [filename |-> DocB, analysis |-> << <<Q1, <<>> >> >>] >> }

\* The defense generator on its own: two analysis files on disk, each
\* holding any of the collections, and generators run on them.
InitPrompts ==
    /\ today = 1
    /\ seed = 0
    /\ pdfs = [d \in DocNames |-> -1]
    /\ qfile = None
    /\ defq = None
    /\ model = <<"m">>
    /\ \E x \in Collections, y \in Collections :
           fs = (UserAnalysis :> JsonDump(x))
                @@ (CaseDirAnalysis(model) :> JsonDump(y))
    /\ dirs = {CaseDir, Parent(UserAnalysis)}
    /\ analyzer = None
    /\ gen = None
    /\ pc = "idle"
    /\ job = None
    /\ ret = NoRet
    /\ last = None
    /\ tally = <<>>
    /\ fpLog = {}
    /\ runs = <<>>
    /\ ops = 0
    /\ edits = 0
    /\ sent = <<>>
    /\ peer = None
    /\ exchanges = <<>>

NextPrompts ==
    \E given \in AnalysisArgs, answers \in MaterialLists :
        DefendDirect(given, answers)

SpecPrompts == InitPrompts /\ [][NextPrompts]_vars

\* The artifacts in the order full_process_command passes them (214-216).
ArtifactOrder ==
    << <<"defense_strategy.md">>, <<"action_items.md">>, <<"case_timeline.md">> >>

\* What a run directory can hold of the four inputs of the combiner: each
\* one absent, or written with one of the contents its writer gives it.
InputFiles(i) ==
    IF i = 1 THEN {NoFile, MarkdownSummary(StrayAnalysis)}
    ELSE {NoFile} \cup
         {[kind |-> "text",
           value |-> <<HeadingOf(Head(SubSeq(ArtifactOrder, i - 1, i - 1)))>> \o a] :
              a \in Answers}

\* The combiner on its own: a run directory holding any of its inputs.
InitCombine ==
    /\ today = 1
    /\ seed = 0
    /\ pdfs = [d \in DocNames |-> -1]
    /\ qfile = None
    /\ defq = None
    /\ model \in {<<"m">>, <<"m", ":", "7">>}
    /\ \E held \in [1..4 -> UNION {InputFiles(i) : i \in 1..4}] :
           /\ \A i \in 1..4 : held[i] \in InputFiles(i)
           /\ LET inputs == CombineInputs(RunDirOn(1), sanitize_model_name(model))
                  there == {i \in 1..4 : held[i] # NoFile}
              IN fs = [p \in {inputs[i] : i \in there} |->
                          held[CHOOSE i \in there : inputs[i] = p]]
    /\ dirs = {CaseDir} \cup WithParents(Child(RunDirOn(1), <<"defense_materials">>))
    /\ analyzer = None
    /\ gen = None
    /\ pc = "idle"
    /\ job = None
    /\ ret = NoRet
    /\ last = None
    /\ tally = <<>>
    /\ fpLog = {}
    /\ runs = <<>>
    /\ ops = 0
    /\ edits = 0
    /\ sent = <<>>
    /\ peer = None
    /\ exchanges = <<>>

NextCombine == CombineDirect

SpecCombine == InitCombine /\ [][NextCombine]_vars

\* The commands under every error kind: the service unreachable, a PDF
\* without text, LLM calls failing, the analysis file missing or malformed,
\* the cache file malformed.
InitFaults ==
    /\ today = 1
    /\ seed = 0
    /\ \E c \in {0, 1} : pdfs = [d \in DocNames |-> IF d = DocA THEN c ELSE -1]
    /\ qfile = None
    /\ defq = None
    /\ model = <<"m", ":", "7">>
    /\ fs = <<>>
    /\ dirs = {CaseDir}
    /\ analyzer = None
    /\ gen = None
    /\ pc = "idle"
    /\ job = None
    /\ ret = NoRet
    /\ last = None
    /\ tally = <<>>
    /\ fpLog = {}
    /\ runs = <<>>
    /\ ops = 0
    /\ edits = 0
    /\ sent = <<>>
    /\ peer = None
    /\ exchanges = <<>>

NextFaults ==
    \/ \E file \in {JsonDump(<<>>), Malformed} : PutCache(file)
    \/ \E p \in {UserAnalysis, CaseDirAnalysis(sanitize_model_name(model))},
          file \in AnalysisFiles :
           PutAnalysis(p, file)
    \/ \E conn \in BOOLEAN : AnalyzeCommandStart(conn, FALSE)
    \/ \E conn \in BOOLEAN : FullProcessStart(conn, FALSE)
    \/ \E outcomes \in OutcomeLists : AnalyzeDocStep(outcomes)
    \/ AnalyzeAllReturn
    \/ \E conn \in BOOLEAN, answers \in MaterialLists :
           FullProcessDefend(conn, answers)
    \/ \E conn \in BOOLEAN, given \in AnalysisArgs, answers \in MaterialLists :
           DefendCommandRun(conn, given, answers)

SpecFaults == InitFaults /\ [][NextFaults]_vars

\* Runs over two documents while the questions files change.
InitQuestions ==
    /\ today = 1
    /\ seed = 0
    /\ pdfs = [d \in DocNames |-> IF d \in {DocA, DocB} THEN 1 ELSE -1]
    /\ qfile \in {None, Some(<<Q1>>)}
    /\ defq = None
    /\ model = <<"m">>
    /\ fs = <<>>
    /\ dirs = {CaseDir}
    /\ analyzer = None
    /\ gen = None
    /\ pc = "idle"
    /\ job = None
    /\ ret = NoRet
    /\ last = None
    /\ tally = <<>>
    /\ fpLog = {}
    /\ runs = <<>>
    /\ ops = 0
    /\ edits = 0
    /\ sent = <<>>
    /\ peer = None
    /\ exchanges = <<>>

NextQuestions ==
    \/ \E qs \in QLists \cup {<<>>} : EditQuestions(qs)
    \/ PutDefaultQuestions
    \/ \E qf \in BOOLEAN, dq \in {None, Some(<<Q1>>)} : AnalyzeAllStart(qf, dq)
    \/ \E qf \in BOOLEAN : AnalyzeCommandStart(TRUE, qf)
    \/ \E outcomes \in CacheOutcomeLists : AnalyzeDocStep(outcomes)
    \/ AnalyzeAllReturn

SpecQuestions == InitQuestions /\ [][NextQuestions]_vars

\* One analyze command over two documents, interrupted at any point.
InitInterrupt ==
    /\ today = 1
    /\ seed = 0
    /\ pdfs = [d \in DocNames |-> IF d \in {DocA, DocB} THEN 1 ELSE -1]
    /\ qfile = None
    /\ defq = None
    /\ model \in {<<"m">>, <<"m", ":", "7">>}
    /\ fs = <<>>
    /\ dirs = {CaseDir}
    /\ analyzer = None
    /\ gen = None
    /\ pc = "idle"
    /\ job = None
    /\ ret = NoRet
    /\ last = None
    /\ tally = <<>>
    /\ fpLog = {}
    /\ runs = <<>>
    /\ ops = 0
    /\ edits = 0
    /\ sent = <<>>
    /\ peer = None
    /\ exchanges = <<>>

NextInterrupt ==
    \/ AnalyzeCommandStart(TRUE, FALSE)
    \/ \E outcomes \in CacheOutcomeLists : AnalyzeDocOpen(outcomes)
    \/ AnalyzeDocWrite
    \/ AnalyzeAllReturn
    \/ Interrupt

SpecInterrupt == InitInterrupt /\ [][NextInterrupt]_vars

\* Two analyze commands on the same case directory on the same day, their
\* steps interleaved.
NextRace ==
    \/ \E s \in Seeds : Switch(s)
    \/ AnalyzeCommandStart(TRUE, FALSE)
    \/ \E outcomes \in CacheOutcomeLists : AnalyzeDocOpen(outcomes)
    \/ AnalyzeDocWrite
    \/ AnalyzeAllReturn

SpecRace == InitInterrupt /\ [][NextRace]_vars

\* query_ollama called directly, on every reply of the service.
QueryOllama(reply) ==
    /\ ops < MaxOps
    /\ exchanges' = Append(exchanges, [reply |-> reply,
                                       out |-> query_ollama_reply(reply)])
    /\ ops' = ops + 1
    /\ UNCHANGED <<today, seed, pdfs, qfile, defq, model, fs, dirs, analyzer,
                   gen, pc, job, ret, last, tally, fpLog, runs, edits, sent,
                   peer>>

NextClient == \E reply \in Replies : QueryOllama(reply)

SpecClient == Init /\ [][NextClient]_vars

\* Question lists with a question text that occurs twice.
DupQLists == QLists \cup {<<Q1, Q1>>, <<Q2, Q2>>}

\* Runs with a questions file whose list may repeat a question, over a PDF
\* with or without text.
InitAnswers ==
    /\ today = 1
    /\ seed = 0
    /\ \E c \in {0, 1} : pdfs = [d \in DocNames |-> IF d = DocA THEN c ELSE -1]
    /\ qfile \in {Some(qs) : qs \in DupQLists}
    /\ defq = None
    /\ model = <<"m">>
    /\ fs = <<>>
    /\ dirs = {CaseDir}
    /\ analyzer = None
    /\ gen = None
    /\ pc = "idle"
    /\ job = None
    /\ ret = NoRet
    /\ last = None
    /\ tally = <<>>
    /\ fpLog = {}
    /\ runs = <<>>
    /\ ops = 0
    /\ edits = 0
    /\ sent = <<>>
    /\ peer = None
    /\ exchanges = <<>>

NextAnswers ==
    \/ \E qs \in DupQLists : EditQuestions(qs)
    \/ \E qf \in BOOLEAN : AnalyzeAllStart(qf, None)
    \/ \E qf \in BOOLEAN : AnalyzeCommandStart(TRUE, qf)
    \/ \E outcomes \in OutcomeLists : AnalyzeDocStep(outcomes)
    \/ AnalyzeAllReturn

SpecAnswers == InitAnswers /\ [][NextAnswers]_vars

\* ------------------------------------------------ phase-1 output, written
\* in two steps: open(output_file, 'w') truncates the file, json.dump and
\* generate_markdown_summary then write the results.
AnalyzeOutputOpen ==
    /\ pc = "docs"
    /\ job[1].queue = <<>>
    /\ job[1].cmd # "analyze_all"
    /\ fs' = (RunDirAnalysis(job[1].run_dir, sanitize_model_name(model))
                 :> Truncated) @@ fs
    /\ pc' = "writing"
    /\ UNCHANGED <<today, seed, pdfs, qfile, defq, model, dirs, analyzer, gen,
                   job, ret, last, tally, fpLog, runs, ops, edits, sent, peer,
                   exchanges>>

AnalyzeOutputWrite ==
    /\ pc = "writing"
    /\ LET j == job[1]
           sanitized == sanitize_model_name(model)
       IN /\ runs' = Finished(j)
          /\ fs' = WriteAnalysisOutput(fs, j.run_dir, sanitized, j.results)
          /\ ret' = [NoRet EXCEPT !.cmd = j.cmd, !.ok = TRUE, !.phase1 = TRUE,
                         !.run_dir = Some(j.run_dir),
                         !.an_dir = Some(analyzer[1].output_dir),
                         !.llm = j.llm, !.date = j.date, !.checks = <<TRUE>>,
                         !.cache0 = KindAt(j.fs0, analyzer[1].cache_file),
                         !.wrote = Some(RunDirAnalysis(j.run_dir, sanitized)),
                         !.changed = Changed(j.fs0, fs')]
          /\ pc' = IF j.cmd = "full" THEN "fp_defend" ELSE "idle"
    /\ job' = IF pc' = "fp_defend" THEN job ELSE None
    /\ analyzer' = None
    /\ UNCHANGED <<today, seed, pdfs, qfile, defq, model, dirs, gen,
                   last, tally, fpLog, ops, edits, sent, peer, exchanges>>

\* KeyboardInterrupt while the output file is open for writing.
InterruptOutput ==
    /\ pc = "writing"
    /\ ret' = [NoRet EXCEPT !.cmd = job[1].cmd, !.raised = "KeyboardInterrupt",
                   !.escaped = TRUE, !.checks = <<TRUE>>,
                   !.run_dir = Some(analyzer[1].output_dir),
                   !.llm = job[1].llm, !.date = job[1].date,
                   !.changed = Changed(job[1].fs0, fs)]
    /\ pc' = "idle"
    /\ job' = None
    /\ analyzer' = None
    /\ UNCHANGED <<today, seed, pdfs, qfile, defq, model, fs, dirs, gen, last,
                   tally, fpLog, runs, ops, edits, sent, peer, exchanges>>

NextOutput ==
    \/ AnalyzeCommandStart(TRUE, FALSE)
    \/ \E outcomes \in CacheOutcomeLists : AnalyzeDocStep(outcomes)
    \/ AnalyzeOutputOpen
    \/ AnalyzeOutputWrite
    \/ Interrupt
    \/ InterruptOutput

SpecOutput == InitInterrupt /\ [][NextOutput]_vars

\* ------------------------------------------------ runs to completion
\* The steps of a run follow one another without waiting for anything but
\* the calls they make, so a step that stays possible is taken.
InitTermination ==
    /\ today = 1
    /\ seed = 0
    /\ \E c \in {0, 1}, b \in {-1, 1} :
           pdfs = [d \in DocNames |-> IF d = DocA THEN c
                                      ELSE IF d = DocB THEN b ELSE -1]
    /\ qfile = None
    /\ defq = None
    /\ model = <<"m">>
    /\ fs = <<>>
    /\ dirs = {CaseDir}
    /\ analyzer = None
    /\ gen = None
    /\ pc = "idle"
    /\ job = None
    /\ ret = NoRet
    /\ last = None
    /\ tally = <<>>
    /\ fpLog = {}
    /\ runs = <<>>
    /\ ops = 0
    /\ edits = 0
    /\ sent = <<>>
    /\ peer = None
    /\ exchanges = <<>>

DocumentStep == \E outcomes \in CacheOutcomeLists : AnalyzeDocStep(outcomes)

DefendStep ==
    \E conn \in BOOLEAN, answers \in MaterialLists : FullProcessDefend(conn, answers)

NextTermination ==
    \/ \E file \in {JsonDump(<<>>), Malformed} : PutCache(file)
    \/ AnalyzeAllStart(FALSE, None)
    \/ \E conn \in BOOLEAN : FullProcessStart(conn, FALSE)
    \/ DocumentStep
    \/ AnalyzeAllReturn
    \/ DefendStep

SpecTermination ==
    /\ InitTermination
    /\ [][NextTermination]_vars
    /\ WF_vars(DocumentStep)
    /\ WF_vars(AnalyzeAllReturn)
    /\ WF_vars(DefendStep)

\* =================================================================== claims

\* The last two runs of analyze_all_documents, when the second one is a
\* fresh analyzer working on the same run directory with no document and no
\* question changed.
RepeatedRun ==
    /\ Len(runs) = 2
    /\ runs[2].fresh
    /\ runs[1].stable /\ runs[2].stable
    /\ runs[1].world = runs[2].world

\* C1: cache idempotence across runs.  A second analysis of an unchanged
\* case directory and question set, by a fresh analyzer that loads the
\* persisted cache, returns the results of the first and calls the LLM zero
\* times.
C1_CacheIdempotence ==
    RepeatedRun => /\ runs[2].results = runs[1].results
                   /\ runs[2].llm = 0

\* C2: fingerprint determinism.  Two computations of the fingerprint of the
\* same document path against the same question list give the same key,
\* whichever process computes them.
C2_FingerprintDeterministic ==
    \A a \in fpLog : \A b \in fpLog :
        (a.name = b.name /\ a.questions = b.questions) => a.key = b.key

\* C3: a cache hit does no work.  When the fingerprint is in the in-memory
\* cache, analyze_document returns the cached analysis, extracts nothing,
\* calls the LLM zero times and leaves the cache and the cache file as they
\* were.
C3_CacheHitNoWork ==
    (last # None /\ last[1].key \in DOMAIN last[1].cacheBefore) =>
        /\ last[1].result = last[1].cacheBefore[last[1].key]
        /\ ~last[1].extracted
        /\ last[1].llm = 0
        /\ last[1].cacheAfter = last[1].cacheBefore
        /\ last[1].diskAfter = last[1].diskBefore

\* A hit on an entry an earlier run stored, the document being one whose
\* text can be extracted.
C3_Witness ==
    /\ last # None
    /\ last[1].key \in DOMAIN last[1].cacheBefore
    /\ last[1].text
    /\ Len(runs) >= 1

\* The last analyze_document call was a miss.
LastMiss == last # None /\ last[1].key \notin DOMAIN last[1].cacheBefore

\* The fingerprint of the last call is stored and the cache file holds the
\* whole in-memory cache.
LastStored ==
    /\ last[1].key \in DOMAIN last[1].cacheAfter
    /\ last[1].cacheAfter[last[1].key] = last[1].result
    /\ last[1].diskAfter = JsonDump(last[1].cacheAfter)

C6_ContentSensitive ==
    \A a \in fpLog : \A b \in fpLog :
        (/\ a.name = b.name /\ a.questions = b.questions /\ a.seed = b.seed
         /\ a.content # b.content)
        => a.key # b.key

CombinedRun ==
    /\ pc = "idle"
    /\ ret.cmd = "full" /\ ret.phase1 /\ ret.raised # "NoConnection"

\* C8: in a combined run for date D and model M the defense phase loads
\* the file the analysis phase wrote,
\* C/{D}_{sanitize(M)}/document_analysis_{sanitize(M)}.json.
C8_PathDiscovery ==
    CombinedRun =>
        /\ ret.wrote = Some(RunDirAnalysis(
                                PathJoin(CaseDir,
                                         RunDirName(ret.date,
                                                    sanitize_model_name(model))),
                                sanitize_model_name(model)))
        /\ ret.loaded = ret.wrote

\* C9: in a combined run the analyzer and the defense generator write into
\* the one run directory the command computed.
C9_SingleRunDirectory ==
    CombinedRun => /\ ret.an_dir = ret.run_dir
                   /\ ret.gen_dir = ret.run_dir

\* defend_command got as far as selecting the analysis file.
Selected == ret.cmd \in {"defend", "full"} /\ ret.run_dir # None
                /\ (ret.cmd = "full" => CombinedRun)

\* The candidates (b) and (c) of the selection.
RunDirCandidate ==
    Some(RunDirAnalysis(ret.run_dir[1], sanitize_model_name(model)))
LegacyCandidate == Some(CaseDirAnalysis(sanitize_model_name(model)))

\* C10, as stated: the analysis file is the first existing one among the
\* given path, the run-directory file and the case-directory file.
C10_FirstExisting ==
    Selected =>
        ret.chosen = IF ret.given # None /\ ret.existed[1] THEN ret.given
                     ELSE IF ret.existed[2] THEN RunDirCandidate
                     ELSE IF ret.existed[3] THEN LegacyCandidate
                     ELSE None

\* C10: defend_command selects the caller-specified path whenever one was
\* given, existing or not; without one it selects the run-directory file if
\* that exists, else the case-directory file if that exists, else it raises
\* FileNotFoundError.
C10_SearchOrder ==
    Selected =>
        /\ ret.chosen = IF ret.given # None THEN ret.given
                        ELSE IF ret.existed[2] THEN RunDirCandidate
                        ELSE IF ret.existed[3] THEN LegacyCandidate
                        ELSE None
        /\ ret.chosen = None <=> ret.raised = "FileNotFoundError"

\* No path given, both the run-directory file and the case-directory file
\* exist, and the run-directory file is selected.
C10_Witness ==
    /\ Selected
    /\ ret.given = None
    /\ ret.existed[2] /\ ret.existed[3]
    /\ ret.chosen = RunDirCandidate

\* No candidate analysis file existed when defend_command looked.
NoCandidate ==
    /\ Selected
    /\ ~ret.existed[1] /\ ~ret.existed[2] /\ ~ret.existed[3]

\* The analysis-not-found outcome: the error names the run directory and
\* the case directory, the user is told to run analyze first, the command
\* returns failure, calls the LLM for nothing and writes nothing.
NotFoundOutcome ==
    /\ ret.raised = "FileNotFoundError"
    /\ ret.named = {ret.run_dir[1], CaseDir}
    /\ ret.remedy
    /\ ~ret.ok /\ ret.llm = 0 /\ ret.changed = {}

\* C11, as stated: whenever none of the candidate analysis files exists,
\* defend ends in the analysis-not-found outcome.
C11_MissingAlwaysNotFound == NoCandidate => NotFoundOutcome

\* C11: when no analysis path was given and neither the run-directory file
\* nor the case-directory file exists, defend ends in the analysis-not-found
\* outcome.  When a path was given and no candidate exists, defend still
\* returns failure, calls the LLM for nothing and writes nothing, but its
\* error is not the one naming both locations.
C11_MissingNotFound ==
    NoCandidate =>
        IF ret.given = None
        THEN NotFoundOutcome
        ELSE /\ ~ret.ok /\ ret.llm = 0 /\ ret.changed = {}
             /\ ret.named # {ret.run_dir[1], CaseDir}

\* A standalone defend without --analysis that found no analysis file.
C11_Witness ==
    /\ NoCandidate
    /\ ret.cmd = "defend"
    /\ ret.given = None
    /\ ret.raised = "FileNotFoundError"

\* C12: an absent analysis file ends phase 2 in the analysis-missing error
\* (FileNotFoundError), a present but unparseable one in the different
\* analysis-malformed error (JSONDecodeError), and neither run writes a
\* defense artifact.
C12_MissingVersusMalformed ==
    Selected =>
        /\ ret.found \in {"none", "absent"} =>
               ret.raised = "FileNotFoundError" /\ ret.changed = {}
        /\ ret.found = "malformed" =>
               ret.raised = "JSONDecodeError" /\ ret.changed = {}

\* The file names of a result sequence, in its order.
FileNames(results) == [k \in 1..Len(results) |-> results[k].filename]

\* The PDFs a run found in the case directory when it listed it.
Found(run) == {d \in DocNames : run.world.pdfs[d] >= 0}

\* C13: analyze_all_documents returns exactly one analysis per PDF found in
\* the case directory, in ascending name order, computed or cached alike,
\* and the JSON output of analyze_command lists them in that order.
C13_SortedOnePerPdf ==
    /\ \A i \in 1..Len(runs) :
           LET names == FileNames(runs[i].results)
           IN /\ Len(names) = Cardinality(Found(runs[i]))
              /\ {names[k] : k \in 1..Len(names)} = Found(runs[i])
              /\ \A k \in 1..(Len(names) - 1) : StrLess(names[k], names[k + 1])
    /\ (pc = "idle" /\ ret.cmd = "analyze" /\ ret.ok) =>
           /\ ret.wrote # None
           /\ FileAt(ret.wrote[1]) = JsonDump(runs[Len(runs)].results)

\* A second run over three PDFs with text, two of them served from the
\* cache and one computed, written out by analyze_command.
C13_Witness ==
    /\ Len(runs) = 2
    /\ pc = "idle" /\ ret.cmd = "analyze" /\ ret.ok
    /\ \A d \in DocNames : runs[2].world.pdfs[d] = 1
    /\ Len(runs[2].results) = 3
    /\ runs[2].llm = 2

\* Every question of the list has the empty answer in the analysis, and
\* the analysis has no other entry.
AllBlank(analysis, questions) ==
    /\ \A i \in 1..Len(questions) :
           DictHas(analysis, questions[i]) /\ DictGet(analysis, questions[i]) = <<>>
    /\ \A i \in 1..Len(analysis) :
           \E k \in 1..Len(questions) : analysis[i][1] = questions[k]

\* C14: a document whose extraction yields no text gets an analysis with
\* the empty answer for every question and no LLM call; nothing is raised
\* and the run goes on with the documents that remain, so no document of
\* the listing is dropped.
C14_ExtractionFailureDegrades ==
    /\ (LastMiss /\ ~last[1].text) =>
           /\ last[1].result.filename = last[1].name
           /\ AllBlank(last[1].result.analysis, last[1].questions)
           /\ last[1].llm = 0 /\ last[1].asked = <<>>
    /\ pc = "docs" =>
           FileNames(job[1].results) \o job[1].queue = SortedSeq(Found(job[1]))
    /\ \A i \in 1..Len(runs) :
           runs[i].stable =>
               \A k \in 1..Len(runs[i].results) :
                   runs[i].world.pdfs[runs[i].results[k].filename] = 0 =>
                       \A n \in 1..Len(runs[i].results[k].analysis) :
                           runs[i].results[k].analysis[n][2] = <<>>

\* A finished run whose first document had no text and whose second was
\* then put to the LLM.
C14_Witness ==
    \E i \in 1..Len(runs) :
        /\ runs[i].stable
        /\ Len(runs[i].results) = 2
        /\ runs[i].world.pdfs[runs[i].results[1].filename] = 0
        /\ runs[i].world.pdfs[runs[i].results[2].filename] = 1
        /\ runs[i].llm = 2

\* The last call for the question of call i: the one whose answer the
\* analysis keeps.
LastCallFor(questions, i) ==
    CHOOSE k \in 1..Len(questions) :
        /\ questions[k] = questions[i]
        /\ \A n \in (k + 1)..Len(questions) : questions[n] # questions[i]

\* C15: on a miss with text, whatever subset of the LLM calls fails, the
\* analysis holds the empty string for the questions whose call failed and
\* the text the LLM returned for the others, and the run goes on with the
\* remaining documents: every finished run has an entry for every PDF.
C15_PartialFailureIsolated ==
    /\ (LastMiss /\ last[1].text) =>
           /\ Len(last[1].failed) = Len(last[1].questions)
           /\ \A i \in 1..Len(last[1].questions) :
                  LET k == LastCallFor(last[1].questions, i)
                      a == last[1].result.analysis
                  IN /\ DictHas(a, last[1].questions[i])
                     /\ last[1].failed[k] => DictGet(a, last[1].questions[i]) = <<>>
                     /\ ~last[1].failed[k] =>
                            DictGet(a, last[1].questions[i]) = last[1].texts[k]
    /\ \A i \in 1..Len(runs) :
           Len(runs[i].results) = Cardinality(Found(runs[i]))

\* A finished run of two PDFs with text: for the first the call for the
\* first question failed and the one for the second answered, and the
\* second PDF was analysed after it.
C15_Witness ==
    /\ LastMiss /\ last[1].text
    /\ pc = "idle"
    /\ \E i \in 1..Len(runs) :
           /\ Len(runs[i].results) = 2
           /\ \A k \in 1..2 : runs[i].world.pdfs[runs[i].results[k].filename] = 1
           /\ runs[i].results[1].analysis[1][2] = <<>>
           /\ runs[i].results[1].analysis[2][2] # <<>>
           /\ runs[i].results[2] = last[1].result

\* C16: for a miss with text the analyzer makes exactly one LLM call per
\* question, in the order of the question list, and repeats none, whether
\* calls fail or not.
C16_OneCallPerQuestion ==
    (LastMiss /\ last[1].text) =>
        /\ last[1].asked = last[1].questions
        /\ last[1].llm = Len(last[1].asked)

\* A miss with text under two questions, the first call failed and the
\* second was still made, once.
C16_Witness ==
    /\ LastMiss /\ last[1].text
    /\ Len(last[1].questions) = 2
    /\ last[1].failed[1]
    /\ last[1].asked = last[1].questions

\* An analyze command has returned, having found the LLM service and a
\* usable cache; the last run on record is its run.
AnalyzeReturned ==
    /\ pc = "idle"
    /\ ret.cmd = "analyze" /\ ret.raised = ""
    /\ Len(runs) >= 1

\* C17: given a reachable LLM service and a usable cache, analysis returns
\* no results and reports failure exactly when the case directory holds no
\* PDF; with at least one PDF it succeeds whatever extraction and LLM calls
\* fail.
C17_FailsOnlyOnZeroDocuments ==
    /\ AnalyzeReturned =>
           /\ ret.ok <=> Found(runs[Len(runs)]) # {}
           /\ ~ret.ok <=> runs[Len(runs)].results = <<>>
    /\ \A i \in 1..Len(runs) :
           runs[i].results = <<>> <=> Found(runs[i]) = {}

\* An analyze command that succeeded on a directory whose only PDF gave no
\* text.
C17_Witness ==
    /\ AnalyzeReturned
    /\ ret.ok
    /\ Cardinality(Found(runs[Len(runs)])) = 1
    /\ \A d \in Found(runs[Len(runs)]) : runs[Len(runs)].world.pdfs[d] = 0
    /\ runs[Len(runs)].stable
    /\ runs[Len(runs)].llm = 0

\* The log file of the analyzer of a run directory.
LogOf(run_dir) == Child(run_dir, <<"case_analysis.log">>)

\* C18: analysis of a case directory without documents returns an empty
\* result set, is reported as a failure, and writes no analysis JSON, no
\* markdown summary and no cache file: the log of the analyzer is the only
\* file it touches.
C18_EmptyDirectory ==
    (AnalyzeReturned /\ Found(runs[Len(runs)]) = {}) =>
        /\ runs[Len(runs)].results = <<>>
        /\ ~ret.ok
        /\ ret.changed \subseteq {LogOf(ret.run_dir[1])}
        /\ ret.wrote = None

\* An analyze command on an empty case directory that has not been run in
\* before: afterwards the run directory holds the log and nothing else.
C18_Witness ==
    /\ AnalyzeReturned /\ Found(runs[Len(runs)]) = {}
    /\ Len(runs) = 1
    /\ DOMAIN fs = {LogOf(ret.run_dir[1])}

\* All three artifacts are files of directory d, each beginning with its
\* level-1 heading.
ArtifactsIn(d) ==
    \A name \in ArtifactNames :
        /\ Child(d, name) \in DOMAIN fs
        /\ fs[Child(d, name)].kind = "text"
        /\ fs[Child(d, name)].value[1] = HeadingOf(name)

\* C19: whatever calls fail, generate_all_materials makes its three LLM
\* calls and writes its three files, each beginning with its level-1
\* heading.
C19_IndependentArtifacts ==
    (pc = "idle" /\ ret.cmd = "generate_all") =>
        /\ ret.raised = ""
        /\ ret.llm = 3
        /\ ArtifactsIn(Child(ret.gen_dir[1], <<"defense_materials">>))

\* C20: after generate_all_materials has succeeded, the three artifacts
\* are under defense_materials of the run directory, the place where the
\* combined pipeline looks for them, whatever the model identifier.
C20_ArtifactLocation ==
    (pc = "idle" /\ ret.cmd = "generate_all" /\ ret.ok) =>
        \E d \in 1..MaxDate :
            ArtifactsIn(Child(RunDirOn(d), <<"defense_materials">>))

Contains(whole, part) ==
    \E i \in 1..(Len(whole) - Len(part) + 1) :
        SubSeq(whole, i, i + Len(part) - 1) = part

\* The inputs of the combiner call just made that were on disk.
PresentInputs ==
    {p \in {CombineInputs(ret.run_dir[1], sanitize_model_name(model))[i] :
               i \in 1..4} : p \in DOMAIN fs}

\* C22: combiner tolerance.  Whatever inputs are missing, in particular
\* action_items.md alone, combining does not raise and writes the combined
\* document, which contains the section of every input that exists.
C22_CombinerTolerance ==
    (pc = "idle" /\ ret.cmd = "combine") =>
        /\ ret.raised = ""
        /\ ret.wrote # None
        /\ ret.wrote[1] \in DOMAIN fs
        /\ \A p \in PresentInputs : Contains(fs[ret.wrote[1]].value, fs[p].value)

\* Combining with action_items.md missing and the other three inputs there.
C22_Witness ==
    /\ pc = "idle" /\ ret.cmd = "combine"
    /\ Cardinality(PresentInputs) = 3
    /\ CombineInputs(ret.run_dir[1], sanitize_model_name(model))[3] \notin DOMAIN fs
    /\ ret.wrote # None
    /\ Len(fs[ret.wrote[1]].value) >= 3

\* A command of the CLI has returned or raised.
CommandDone ==
    pc = "idle" /\ ret.cmd \in {"analyze", "defend", "full"}

\* The files of the defense phase: everything under a defense_materials or
\* Defense- directory, and the log of the generator.
DefenseFiles ==
    {p \in DOMAIN fs :
        \/ \E i \in 1..Len(p) : p[i] = <<"defense_materials">>
        \/ \E i \in 1..Len(p) : Len(p[i]) >= 1 /\ p[i][1] = "Defense-"
        \/ p[Len(p)] = <<"defense_generation.log">>}

\* C24 as stated: a command in which a connectivity check failed returned
\* failure without having attempted any part of the run.
C24_NoPartialRun ==
    (CommandDone /\ \E i \in DOMAIN ret.checks : ~ret.checks[i]) =>
        /\ ~ret.ok
        /\ ~ret.phase1
        /\ ret.changed = {}

\* C24, amended: when the first connectivity check of a command fails, the
\* command returns failure and nothing of the run was attempted: no
\* document analysed, no LLM call, no file written; when the check of the
\* defense phase of full-process fails, the command returns failure after
\* its analysis phase and no defense file is written.
C24_FirstCheckFatal ==
    /\ (CommandDone /\ ret.checks = <<FALSE>>) =>
           /\ ~ret.ok /\ ~ret.escaped
           /\ ~ret.phase1
           /\ ret.changed = {}
           /\ ret.llm = 0
           /\ ret.cmd # "defend" => tally = <<>>
           /\ ret.wrote = None
    /\ (CommandDone /\ Len(ret.checks) = 2 /\ ~ret.checks[2]) =>
           /\ ret.cmd = "full"
           /\ ~ret.ok /\ ~ret.escaped
           /\ ret.phase1
           /\ ret.changed \cap DefenseFiles = {}

\* A full-process command whose first connectivity check failed, on a case
\* directory that holds a PDF.
C24_Witness ==
    /\ CommandDone /\ ret.cmd = "full"
    /\ ret.checks = <<FALSE>>
    /\ \E d \in DocNames : pdfs[d] > 0
    /\ analyzer = None

\* The cache file of the run directory of the command that has returned.
CacheOf(run_dir) == Child(run_dir, <<"analysis_cache.json">>)

\* C25: a cache file that exists and does not parse is fatal to the
\* analysis: the command fails, no document is analysed and no LLM call
\* made, and the file is left as it was; an absent cache file is not:
\* the analysis of the documents goes through.
C25_MalformedCacheFatal ==
    /\ (CommandDone /\ ret.cmd \in {"analyze", "full"}
           /\ ret.cache0 = "malformed") =>
           /\ ~ret.ok
           /\ ret.raised = "JSONDecodeError"
           /\ ~ret.phase1
           /\ ret.llm = 0
           /\ tally = <<>>
           /\ CacheOf(ret.run_dir[1]) \notin ret.changed
           /\ FileAt(CacheOf(ret.run_dir[1])) = Malformed
    /\ (CommandDone /\ ret.cmd \in {"analyze", "full"}
           /\ ret.cache0 = "absent") =>
           /\ ret.raised # "JSONDecodeError"
           /\ (\E d \in DocNames : pdfs[d] >= 0) => ret.phase1

\* An analyze command that found a malformed cache file in a case
\* directory whose PDF has text.
C25_Witness ==
    /\ CommandDone /\ ret.cmd = "analyze"
    /\ ret.cache0 = "malformed"
    /\ \E d \in DocNames : pdfs[d] > 0
    /\ ret.checks = <<TRUE>>

\* C26: whatever the error, a command returns True or False to its caller
\* and lets no exception out.
C26_ErrorsStopAtCommand ==
    CommandDone => ~ret.escaped

\* A step that replaces the analyzer of the process by a newly constructed
\* one: the start of a command.
NewAnalyzer ==
    /\ ops' # ops
    /\ \/ job' # None /\ job'[1].cmd # "analyze_all"
       \/ job' = None /\ ret'.cmd # "analyze_all"

\* C28: over the operations of one analyzer, a fingerprint that maps to an
\* analysis in the cache maps to the same analysis after every step: no
\* entry is overwritten or removed.
C28_WriteOnce ==
    [][(analyzer # None /\ analyzer' # None /\ ~NewAnalyzer) =>
          \A k \in DOMAIN analyzer[1].analysis_cache :
              /\ k \in DOMAIN analyzer'[1].analysis_cache
              /\ analyzer'[1].analysis_cache[k] = analyzer[1].analysis_cache[k]]_vars

\* An analyzer whose cache holds two entries, one of them looked up again
\* after it was stored.
C28_Witness ==
    /\ analyzer # None
    /\ Cardinality(DOMAIN analyzer[1].analysis_cache) >= 2
    /\ \E k \in DOMAIN analyzer[1].analysis_cache : TallyAt(k).calls >= 2

\* The question lists of the documents analysed so far in the run are one
\* and the same list.
OneQuestionList(j) == \A a, b \in DOMAIN j.qlog : j.qlog[a] = j.qlog[b]

\* C29 as stated: within a run every document is analysed against the same
\* ordered question list, whatever happens to the questions file meanwhile.
C29_QuestionsStable ==
    pc = "docs" => OneQuestionList(job[1])

\* C29: within a run every document is analysed against the same ordered
\* question list when the run was given no questions file, whatever happens
\* to the questions files meanwhile, and when the questions file it was
\* given is not written during the run.
C29_QuestionsStableUnlessEdited ==
    (pc = "docs" /\ (~job[1].questions_file \/ ~job[1].qchanged)) =>
        OneQuestionList(job[1])

\* A run without questions file, both documents analysed, the questions
\* files having changed since it started.
C29_Witness ==
    /\ pc = "docs"
    /\ ~job[1].questions_file
    /\ Len(job[1].qlog) = 2
    /\ ~job[1].stable
    /\ job[1].world.qfile # qfile \/ defq # None

\* C27: after an interruption of analyze_all_documents the cache file on
\* disk holds an entry for every document whose analysis had completed.
C27_InterruptKeepsProgress ==
    (pc = "idle" /\ ret.raised = "KeyboardInterrupt") =>
        \A k \in DOMAIN tally :
            /\ JsonParses(FileAt(CacheOf(ret.run_dir[1])))
            /\ k \in DOMAIN FileAt(CacheOf(ret.run_dir[1])).value

\* A step that completes a save: the json.dump of the running process.
WriteStep == pc = "saving" /\ pc' = "docs" /\ peer' = peer

\* C30 as stated: after every save the cache file equals the complete
\* in-memory cache of the process that saved.
C30_LastWriterWins ==
    [][WriteStep =>
          fs'[analyzer[1].cache_file] = JsonDump(analyzer'[1].analysis_cache)]_vars

\* C30: after every save during which the other process wrote nothing to
\* the file, the cache file equals the complete in-memory cache of the
\* process that saved: entries of the other process that are not in that
\* cache are gone, nothing is merged.
C30_LastWriterWinsUnlessOverlapped ==
    [][(WriteStep /\ FileAt(analyzer[1].cache_file) = Truncated) =>
          fs'[analyzer[1].cache_file] = JsonDump(analyzer'[1].analysis_cache)]_vars

\* A lost update: the running process has just saved, the file is its
\* cache, and an entry the other process had persisted is not in it.
C30_Witness ==
    /\ pc = "docs" /\ analyzer # None /\ peer # None
    /\ last # None /\ last[1].key \in DOMAIN tally
    /\ last[1].diskBefore # NoFile
    /\ FileAt(analyzer[1].cache_file) = JsonDump(analyzer[1].analysis_cache)
    /\ \E k \in DOMAIN peer[1].tally :
           k \notin DOMAIN analyzer[1].analysis_cache

\* C31 as stated: query_ollama returns the response text if and only if the
\* status is the success status (200) and the body contains a 'response'
\* field, and returns the empty string, raising nothing, otherwise.
C31_ClientNeverThrows ==
    \A i \in DOMAIN exchanges :
        LET x == exchanges[i]
            success == x.reply.exc = "" /\ x.reply.status = 200
                       /\ x.reply.body.shape = "object"
                       /\ x.reply.body.response # None
        IN /\ x.out.raised = ""
           /\ x.out.response <=> success
           /\ ~success => x.out.result = <<>>

\* C31: query_ollama returns the response text if and only if the status
\* is 200 and the body is a JSON object whose 'response' field holds a
\* string; on every other reply it returns the empty string; it raises
\* nothing.
C31_ClientNeverThrows200String ==
    \A i \in DOMAIN exchanges :
        LET x == exchanges[i]
            success == x.reply.exc = "" /\ x.reply.status = 200
                       /\ x.reply.body.shape = "object"
                       /\ x.reply.body.response # None
                       /\ x.reply.body.response[1].type = "str"
        IN /\ x.out.raised = ""
           /\ x.out.response <=> success
           /\ success => x.out.result = x.reply.body.response[1].text
           /\ ~success => x.out.result = <<>>

\* A call answered with a body that is not JSON and a call answered with a
\* response text.
C31_Witness ==
    \E i, k \in DOMAIN exchanges :
        /\ exchanges[i].reply.status = 200
        /\ exchanges[i].reply.body = NotJson
        /\ exchanges[k].out.result = <<"r">>

\* A full-process command that has ended, by a return or by an exception.
FullDone == pc = "idle" /\ ret.cmd = "full"

\* C32: in full-process the defense phase starts only after the analysis
\* phase succeeded and wrote the phase-1 JSON; when the analysis phase fails
\* the defense phase is not entered and the command returns failure; when
\* the defense phase fails no combined document is written and the command
\* returns failure.
C32_PhaseSequencing ==
    /\ pc = "fp_defend" =>
           /\ ret.phase1
           /\ ret.wrote # None
           /\ FileAt(ret.wrote[1]).kind = "json"
    /\ (FullDone /\ Len(ret.checks) = 2) => ret.phase1
    /\ (FullDone /\ ~ret.phase1) =>
           /\ Len(ret.checks) <= 1
           /\ ret.gen_dir = None
           /\ ret.changed \cap DefenseFiles = {}
           /\ ~ret.ok /\ ~ret.escaped
    /\ (FullDone /\ ret.phase1 /\ ~ret.ok) =>
           /\ CombinedPath(ret.date, sanitize_model_name(model)) \notin ret.changed
           /\ ~ret.escaped

\* C33: with the service reachable, a PDF in the case directory and no
\* unparseable cache file, full-process returns success and leaves the
\* phase-1 JSON and the three defense artifacts.
C33_FullProcessSucceeds ==
    (FullDone /\ ret.checks # <<>> /\ (\A i \in DOMAIN ret.checks : ret.checks[i])
        /\ (\E d \in DocNames : pdfs[d] >= 0)
        /\ ret.cache0 # "malformed") =>
        /\ ret.ok
        /\ ret.wrote # None /\ FileAt(ret.wrote[1]).kind = "json"
        /\ ArtifactsIn(Child(ret.run_dir[1], <<"defense_materials">>))

\* The position of the first occurrence of question q in the list qs.
FirstAt(qs, q) == CHOOSE i \in 1..Len(qs) : qs[i] = q /\ \A k \in 1..(i - 1) : qs[k] # q

LastDegraded ==
    /\ last # None /\ ~last[1].hit /\ last[1].text
    /\ \E i \in DOMAIN last[1].failed : last[1].failed[i]

\* C35: an analysis computed with a failed LLM call has the empty answer
\* for that question and is stored in the cache and persisted under the
\* fingerprint like any other; a later call with a fingerprint the cache
\* holds returns the stored analysis, empty answers included, with no
\* extraction and no LLM call.
C35_DegradedAnswersCached ==
    /\ LastDegraded =>
           /\ \A i \in DOMAIN last[1].failed :
                  (last[1].failed[i]
                     /\ \A k \in (i + 1)..Len(last[1].questions) :
                            last[1].questions[k] # last[1].questions[i]) =>
                      \E k \in 1..Len(last[1].result.analysis) :
                          last[1].result.analysis[k] = <<last[1].questions[i], <<>>>>
           /\ last[1].key \in DOMAIN last[1].cacheAfter
           /\ last[1].cacheAfter[last[1].key] = last[1].result
           /\ last[1].diskAfter = JsonDump(last[1].cacheAfter)
    /\ (last # None /\ last[1].key \in DOMAIN last[1].cacheBefore) =>
           /\ last[1].hit
           /\ last[1].result = last[1].cacheBefore[last[1].key]
           /\ last[1].llm = 0 /\ ~last[1].extracted
    /\ \A k \in DOMAIN tally : tally[k].llm <= 1 /\ tally[k].late = 0

\* A cache hit that returns an analysis with an empty answer, on a document
\* with text whose analysis this analyzer computed once.
C35_Witness ==
    /\ last # None /\ last[1].hit /\ last[1].text
    /\ \E k \in 1..Len(last[1].result.analysis) :
           last[1].result.analysis[k][2] = <<>>
    /\ TallyAt(last[1].key).llm = 1
    /\ TallyAt(last[1].key).calls >= 2

\* The phase-1 output file of the run directory of today's run.
Phase1Path ==
    RunDirAnalysis(PathJoin(CaseDir, RunDirName(today, sanitize_model_name(model))),
                   sanitize_model_name(model))

\* C36: the phase-1 output file is written only after every document of
\* the run has been processed: while documents are being processed the file
\* is what it was when the run started; a run that returns has written one entry per
\* PDF of the case directory; a run that was interrupted has changed
\* nothing at that path.
C36_Phase1AllOrNothing ==
    /\ (pc \in {"docs", "saving"}) =>
           FileAt(Phase1Path) =
               (IF Phase1Path \in DOMAIN job[1].fs0
                THEN job[1].fs0[Phase1Path] ELSE NoFile)
    /\ (pc = "idle" /\ ret.cmd = "analyze" /\ ret.ok) =>
           /\ ret.wrote = Some(Phase1Path)
           /\ FileAt(Phase1Path) = JsonDump(runs[Len(runs)].results)
           /\ FileNames(runs[Len(runs)].results) = SortedPdfs
    /\ (pc = "idle" /\ ret.raised = "KeyboardInterrupt") =>
           /\ ret.wrote = None
           /\ Phase1Path \notin ret.changed

\* The PDFs a run found when it started, in processing order.
FoundOrder(j) == SelectSeq(DocOrder, LAMBDA d : j.world.pdfs[d] >= 0)

\* While a run is under way, the documents analysed so far followed by the
\* documents still to do are the PDFs the run found, each once.
EachPdfOnce ==
    job # None =>
        FileNames(job[1].results) \o job[1].queue = FoundOrder(job[1])

====
